---- MODULE Spec2Model ----
(***************************************************************************)
(* Launch orchestration of ayon-applications: the hook discovery engine,   *)
(* the ApplicationLaunchContext execution pipeline (pre-hooks, spawn,      *)
(* post-hooks), ApplicationManager.launch, the process registry of        *)
(* ApplicationManager and ProcessManager (store, read, list, delete), its  *)
(* liveness verifier, and the threads that call one ProcessManager.        *)
(*                                                                         *)
(* Python's None is modelled by the empty sequence and a present value x   *)
(* by the one-element sequence <<x>>.                                      *)
(***************************************************************************)
EXTENDS Integers, Sequences, FiniteSets, TLC

None == <<>>

Some(x) == <<x>>

IsNone(o) == o = <<>>

Val(o) == o[1]

(***************************************************************************)
(* Bounds of the model.                                                    *)
(***************************************************************************)
\* longest list of pre-launch (post-launch) hook classes found on disk in Spec
MaxPreHooks == 2

MaxPostHooks == 2

\* number of API calls made on one launch context
MaxCalls == 2

\* longest list of hook classes of one kind found on disk in SpecDiscovery
MaxClasses == 3

\* largest number of tokens and containers in the launch arguments of SpecArgs
MaxNodes == 4

\* longest batch of triplets given to the liveness verifier in SpecVerifier
MaxBatch == 2

\* number of threads that call one ProcessManager in SpecThreads
MaxThreads == 2

RECURSIVE SeqsUpTo(_, _)
SeqsUpTo(S, n) ==
    IF n = 0 THEN {<<>>}
    ELSE LET shorter == SeqsUpTo(S, n - 1)
         IN  shorter \cup {Append(s, x) : s \in {t \in shorter : Len(t) = n - 1}, x \in S}

Range(s) == {s[i] : i \in DOMAIN s}

(***************************************************************************)
(* Applications (class Application of defs.py): an application has a       *)
(* group, a variant name, a host name and the full name "group/variant".   *)
(***************************************************************************)
MakeApplication(group, name, host) ==
    [group |-> group, name |-> name, host_name |-> host,
     full_name |-> group \o "/" \o name]

Applications ==
    {MakeApplication("maya", "2024", "maya"),
     MakeApplication("nuke", "2024", "nuke")}

\* LaunchTypes: the launch-type tags
LaunchTypes == {"local", "farm"}

\* values platform.system() returns
PlatformSystems == {"Windows", "Linux", "Darwin"}

\* str.lower() on the platform names, image names and paths that occur
Lower(s) ==
    CASE s = "Windows" -> "windows"
      [] s = "WINDOWS" -> "windows"
      [] s = "Linux" -> "linux"
      [] s = "Darwin" -> "darwin"
      [] s = "Maya" -> "maya"
      [] s = "usr/bin/Maya" -> "usr/bin/maya"
      [] OTHER -> s

(***************************************************************************)
(* Hook classes.  A class carries the class attributes of LaunchHook and   *)
(* what its overridable parts do: validates is the result of validate(),   *)
(* init_raises says that its constructor raises, abstract that execute()   *)
(* is still abstract.  order is annotated Optional[int], which Python does *)
(* not enforce: order_type is the type of the value a class declares, and  *)
(* a declared str order "n" is written as the number n.  sets_env are the  *)
(* keys execute() sets in the launch environment.                          *)
(***************************************************************************)
DefaultHook ==
    [order |-> None, order_type |-> "int", hosts |-> {}, app_groups |-> {},
     app_names |-> {}, platforms |-> {}, launch_types |-> {"local"},
     validates |-> TRUE, init_raises |-> FALSE, abstract |-> FALSE,
     sets_env |-> {}]

\* ApplicationLaunchContext.app_name
ContextAppName(app) == app.name

\* ApplicationLaunchContext.host_name
ContextHostName(app) == app.host_name

\* ApplicationLaunchContext.app_group (its name)
ContextAppGroupName(app) == app.group

\* LaunchHook.app_name
HookAppName(app) == app.full_name

\* one dimension of class_validation: an empty filter set does not constrain
FilterAllows(filter, value) == filter # {} => value \in filter

PlatformAllows(platforms, system) ==
    platforms # {} => Lower(system) \in {Lower(p) : p \in platforms}

ClassValidationIgnoresHosts(cls, app, system, ltype) ==
    /\ PlatformAllows(cls.platforms, system)
    /\ FilterAllows(cls.app_groups, ContextAppGroupName(app))
    /\ FilterAllows(cls.app_names, ContextAppName(app))
    /\ FilterAllows(cls.launch_types, ltype)

\* LaunchHook.class_validation
ClassValidation(cls, app, system, ltype) ==
    /\ PlatformAllows(cls.platforms, system)
    /\ FilterAllows(cls.hosts, ContextHostName(app))
    /\ FilterAllows(cls.app_groups, ContextAppGroupName(app))
    /\ FilterAllows(cls.app_names, ContextAppName(app))
    /\ FilterAllows(cls.launch_types, ltype)

HookInitAlwaysValidates(cls, app, system, ltype) ==
    [is_valid |-> cls.validates, validate_called |-> TRUE]

\* LaunchHook.__init__: is_valid and whether validate() was called
HookInit(cls, app, system, ltype) ==
    LET class_ok == ClassValidation(cls, app, system, ltype)
    IN  [is_valid |-> IF class_ok THEN cls.validates ELSE FALSE,
         validate_called |-> class_ok]

(***************************************************************************)
(* State.                                                                  *)
(***************************************************************************)
VARIABLES
    application,                \* ApplicationLaunchContext.application
    platform_system,            \* platform.system() of the running machine
    launch_type,                \* ApplicationLaunchContext.launch_type
    executable,                 \* ApplicationLaunchContext.executable (None: not found on this machine)
    manager_class,              \* the class whose registry methods are used: "ApplicationManager" or "ProcessManager"
    os,                         \* the machine as the liveness verifier finds it: its processes and tools
    hook_classes,               \* [pre, post]: the hook classes the scanned directories hold, in scan order
    prelaunch_hooks,            \* ApplicationLaunchContext.prelaunch_hooks (None or a list)
    postlaunch_hooks,           \* ApplicationLaunchContext.postlaunch_hooks (None or a list)
    process,                    \* ApplicationLaunchContext.process (None or a handle)
    prelaunch_hooks_executed,   \* ApplicationLaunchContext._prelaunch_hooks_executed
    discoveries,                \* number of discoveries that scanned the hook classes so far
    built,                      \* history: [pre, post], whether the list holds what a discovery assigned
    instantiated,               \* history: every call of a hook constructor, in order
    pc,                         \* position of the running call ("idle": none is running)
    call,                       \* the running call: [op, n]
    idx,                        \* position of the hook loop of the running call
    ncalls,                     \* number of API calls started so far
    log,                        \* history: what the calls did, in order
    registry,                   \* the process_info table: hash key -> row
    output_files,               \* the output-capture files that exist on disk (paths)
    thread_local,               \* ProcessManager._thread_local: thread -> its "connection" attribute (None: not set)
    connections,                \* the sqlite3 connections made so far: connection -> the thread that made it
    workers,                    \* thread -> the registry call it runs: position, call, local cnx, argument
    launch_args,                \* ApplicationLaunchContext.launch_args
    kwargs,                     \* ApplicationLaunchContext.kwargs: [env] (None: no "env" key)
    window                      \* ProcessMonitorWindow and its controller: loading flag, rows, selection, pool, signals

vars ==
    <<application, platform_system, launch_type, executable, manager_class, os,
      hook_classes, prelaunch_hooks,
      postlaunch_hooks, process, prelaunch_hooks_executed, discoveries, built,
      instantiated, pc, call, idx, ncalls, log, registry, output_files,
      thread_local, connections, workers, launch_args, kwargs, window>>

config_vars ==
    <<application, platform_system, launch_type, executable, manager_class, os,
      hook_classes>>

\* the state of the threads that call a ProcessManager, and of the window
\* that starts them
thread_vars == <<thread_local, connections, workers, window>>

\* what discover_launch_hooks writes
discovery_vars == <<prelaunch_hooks, postlaunch_hooks, discoveries, built, instantiated>>

(***************************************************************************)
(* Hook discovery: ApplicationLaunchContext.discover_launch_hooks.         *)
(***************************************************************************)
\* a hook instance: its class (kind and position in scan order), the
\* discovery that built it, and its order attribute
HookInstance(kind, i, gen, cls) ==
    [kind |-> kind, cls |-> i, gen |-> gen, order |-> cls.order]

\* klass(self): "abstract" (ABC refuses to instantiate, no constructor runs),
\* "raised" (the constructor raised) or "ok"
Instantiate(cls) ==
    IF cls.abstract THEN "abstract"
    ELSE IF cls.init_raises THEN "raised"
    ELSE "ok"

\* the constructor calls one scan of the classes of a kind makes, in order
RECURSIVE ConstructorCalls(_, _, _, _, _, _)
ConstructorCalls(kind, classes, gen, app, system, ltype) ==
    IF classes = <<>> THEN <<>>
    ELSE LET n == Len(classes)
             cls == classes[n]
             before == ConstructorCalls(kind, SubSeq(classes, 1, n - 1), gen,
                                        app, system, ltype)
             init == HookInit(cls, app, system, ltype)
         IN  IF Instantiate(cls) = "abstract" THEN before
             ELSE Append(before,
                         [kind |-> kind, cls |-> n, gen |-> gen,
                          raised |-> Instantiate(cls) = "raised",
                          is_valid |-> init.is_valid,
                          validate_called |-> init.validate_called])

\* whether the loop body keeps the hook of a class (lines 1061-1087)
KeepsHook(cls, app, system, ltype) ==
    /\ Instantiate(cls) = "ok"
    /\ HookInit(cls, app, system, ltype).is_valid

\* hooks_with_order / hooks_without_order after the loop over the classes
RECURSIVE CollectHooks(_, _, _, _, _, _, _)
CollectHooks(kind, classes, gen, app, system, ltype, with_order) ==
    IF classes = <<>> THEN <<>>
    ELSE LET n == Len(classes)
             cls == classes[n]
             before == CollectHooks(kind, SubSeq(classes, 1, n - 1), gen,
                                    app, system, ltype, with_order)
         IN  IF /\ KeepsHook(cls, app, system, ltype)
                /\ (with_order <=> ~IsNone(cls.order))
             THEN Append(before, HookInstance(kind, n, gen, cls))
             ELSE before

RECURSIVE InsertUnstable(_, _)
InsertUnstable(sorted, hook) ==
    IF sorted = <<>> THEN <<hook>>
    ELSE IF Val(hook.order) <= Val(Head(sorted).order)
         THEN <<hook>> \o sorted
         ELSE <<Head(sorted)>> \o InsertUnstable(Tail(sorted), hook)

\* one insertion of a stable sort by the order attribute
RECURSIVE InsertByOrder(_, _)
InsertByOrder(sorted, hook) ==
    IF sorted = <<>> THEN <<hook>>
    ELSE IF Val(hook.order) < Val(Head(sorted).order)
         THEN <<hook>> \o sorted
         ELSE <<Head(sorted)>> \o InsertByOrder(Tail(sorted), hook)

\* sorted(hooks_with_order, key=lambda obj: obj.order): Python's sort is stable
RECURSIVE SortedByOrder(_)
SortedByOrder(hooks) ==
    IF hooks = <<>> THEN <<>>
    ELSE InsertByOrder(SortedByOrder(SubSeq(hooks, 1, Len(hooks) - 1)),
                       hooks[Len(hooks)])

\* sorted() compares the order values of the collected hooks: comparing a
\* str with an int raises TypeError, and a sort of a list that holds both
\* makes such a comparison
SortRaises(kind, classes, app, system, ltype) ==
    LET types == {classes[n].order_type :
                     n \in {m \in DOMAIN classes :
                                /\ KeepsHook(classes[m], app, system, ltype)
                                /\ ~IsNone(classes[m].order)}}
    IN  Cardinality(types) > 1

\* ordered_hooks of one kind (lines 1089-1094)
OrderedHooks(kind, classes, gen, app, system, ltype) ==
    SortedByOrder(CollectHooks(kind, classes, gen, app, system, ltype, TRUE))
        \o CollectHooks(kind, classes, gen, app, system, ltype, FALSE)

TypeError == [type |-> "TypeError", origin |-> None]

AttributeError == [type |-> "AttributeError", origin |-> None]

AlreadyDiscoveredNever == FALSE

\* the guard of discover_launch_hooks (lines 1020-1023)
AlreadyDiscovered == ~IsNone(prelaunch_hooks) \/ ~IsNone(postlaunch_hooks)

\* what discover_launch_hooks(force) leaves behind: the two lists, the
\* constructor calls it made, whether it scanned the classes, and the
\* exception that left it, if any.  The "pre" classes are handled first.
Discovery(force) ==
    LET gen == discoveries + 1
        cleared == IF AlreadyDiscovered THEN Some(<<>>) ELSE None
        pre_calls == ConstructorCalls("pre", hook_classes.pre, gen, application,
                                      platform_system, launch_type)
        post_calls == ConstructorCalls("post", hook_classes.post, gen, application,
                                       platform_system, launch_type)
        pre_hooks == OrderedHooks("pre", hook_classes.pre, gen, application,
                                  platform_system, launch_type)
        post_hooks == OrderedHooks("post", hook_classes.post, gen, application,
                                   platform_system, launch_type)
    IN  IF AlreadyDiscovered /\ ~force
        THEN \* "Launch hooks were already discovered."
             [pre |-> prelaunch_hooks, post |-> postlaunch_hooks, calls |-> <<>>,
              scanned |-> FALSE, built |-> built, error |-> None]
        ELSE IF AlreadyDiscovered /\ IsNone(prelaunch_hooks)
        THEN \* self.prelaunch_hooks.clear() on None
             [pre |-> prelaunch_hooks, post |-> postlaunch_hooks, calls |-> <<>>,
              scanned |-> FALSE, built |-> built, error |-> Some(AttributeError)]
        ELSE IF AlreadyDiscovered /\ IsNone(postlaunch_hooks)
        THEN \* self.postlaunch_hooks.clear() on None, after the first clear()
             [pre |-> Some(<<>>), post |-> postlaunch_hooks, calls |-> <<>>,
              scanned |-> FALSE, built |-> [built EXCEPT !.pre = FALSE],
              error |-> Some(AttributeError)]
        ELSE IF SortRaises("pre", hook_classes.pre, application, platform_system,
                           launch_type)
        THEN [pre |-> cleared, post |-> cleared, calls |-> pre_calls,
              scanned |-> TRUE, built |-> [pre |-> FALSE, post |-> FALSE],
              error |-> Some(TypeError)]
        ELSE IF SortRaises("post", hook_classes.post, application, platform_system,
                           launch_type)
        THEN [pre |-> Some(pre_hooks), post |-> cleared,
              calls |-> pre_calls \o post_calls,
              scanned |-> TRUE, built |-> [pre |-> TRUE, post |-> FALSE],
              error |-> Some(TypeError)]
        ELSE [pre |-> Some(pre_hooks), post |-> Some(post_hooks),
              calls |-> pre_calls \o post_calls,
              scanned |-> TRUE, built |-> [pre |-> TRUE, post |-> TRUE],
              error |-> None]

\* discover_launch_hooks(force): its effect on the context
DiscoverLaunchHooks(force) ==
    LET d == Discovery(force)
    IN  /\ prelaunch_hooks' = d.pre
        /\ postlaunch_hooks' = d.post
        /\ built' = d.built
        /\ discoveries' = IF d.scanned THEN discoveries + 1 ELSE discoveries
        /\ instantiated' = instantiated \o d.calls

(***************************************************************************)
(* History events.  hook and data are None when an event has none.         *)
(***************************************************************************)
Event(c, ev, hook, data) ==
    [ev |-> ev, call |-> c.n, op |-> c.op, hook |-> hook, data |-> data]

\* the exception a hook's execute() raised
HookError(hook) == [type |-> "HookError", origin |-> hook]

OSError == [type |-> "OSError", origin |-> None]

StorageError == [type |-> "sqlite3.Error", origin |-> None]

ValueError == [type |-> "ValueError", origin |-> None]

(***************************************************************************)
(* Launch arguments.  A value is a token (a str, tag "tok"), or a list, a  *)
(* tuple or a set with its items in iteration order.                       *)
(***************************************************************************)
Token(t) == [tag |-> "tok", tok |-> t, items |-> <<>>]

Container(tag, items) == [tag |-> tag, tok |-> "", items |-> items]

\* isinstance(arg, (list, tuple, set))
IsContainer(arg) == arg.tag \in {"list", "tuple", "set"}

\* one pass of the while loop of clear_launch_args: new_args
RECURSIVE ClearPass(_)
ClearPass(args) ==
    IF args = <<>> THEN <<>>
    ELSE (IF IsContainer(Head(args)) THEN Head(args).items ELSE <<Head(args)>>)
             \o ClearPass(Tail(args))

ClearLaunchArgsOnePass(args) == ClearPass(args)

\* clear_launch_args: passes are made until one finds no container
RECURSIVE ClearLaunchArgs(_)
ClearLaunchArgs(args) ==
    IF \A i \in DOMAIN args : ~IsContainer(args[i])
    THEN ClearPass(args)
    ELSE ClearLaunchArgs(ClearPass(args))

\* launch(): the value of self.launch_args that the spawner gets; a str is
\* passed as it is
PreparedLaunchArgs(args) ==
    IF args.tag = "tok" THEN args
    ELSE Container("list", ClearLaunchArgs(args.items))

(***************************************************************************)
(* The process registry: the process_info table of process_handlers.db and *)
(* the methods of ApplicationManager (manager.py) and ProcessManager       *)
(* (process.py) that write and read it.                                    *)
(***************************************************************************)
\* PIDs the operating system hands out
Pids == {101, 102}

\* process creation times psutil reports
StartTimes == {10}

\* f"{start_time}" of a float with an integral value
FloatStr(t) == ToString(t) \o ".0"

\* pathlib: a path is the sequence of its parts; Path("") has none
KnownPaths ==
    {<<>>, <<"out.txt">>, <<"tmp", "ayon_output.txt">>, <<"usr", "bin", "maya">>,
     <<"usr", "bin", "Maya">>, <<"usr", "bin", "nuke">>, <<"maya">>, <<"nuke">>}

\* Path.as_posix()
RECURSIVE AsPosix(_)
AsPosix(path) ==
    IF path = <<>> THEN "."
    ELSE IF Len(path) = 1 THEN path[1]
    ELSE path[1] \o "/" \o AsPosix(Tail(path))

\* Path(text)
PathOf(text) == CHOOSE path \in KnownPaths : AsPosix(path) = text

\* os.path.basename on the strings that occur
Basename(text) ==
    CASE text = "usr/bin/maya" -> "maya"
      [] text = "usr/bin/Maya" -> "Maya"
      [] text = "usr/bin/nuke" -> "nuke"
      [] text = "maya -file a" -> "maya -file a"
      [] OTHER -> text

\* str(value) of a launch argument
RECURSIVE StrOf(_), StrOfItems(_)
StrOf(value) ==
    CASE value.tag = "tok" -> value.tok
      [] value.tag = "list" -> "[" \o StrOfItems(value.items) \o "]"
      [] value.tag = "tuple" -> "(" \o StrOfItems(value.items) \o ")"
      [] OTHER -> "{" \o StrOfItems(value.items) \o "}"

StrOfItems(items) ==
    IF items = <<>> THEN ""
    ELSE IF Len(items) = 1 THEN "'" \o StrOf(items[1]) \o "'"
    ELSE "'" \o StrOf(items[1]) \o "', " \o StrOfItems(Tail(items))

\* "not args": None, an empty str, an empty list or tuple
Falsy(value) == IsNone(value) \/ (Val(value).items = <<>> /\ Val(value).tok = "")

\* ApplicationManager._extract_executable_name_from_args
ExtractExecutableNameFromArgs(args) ==
    IF Falsy(args) THEN None
    ELSE LET a == Val(args)
             first == IF a.tag = "tok" THEN Some(a)
                      ELSE IF a.tag \in {"list", "tuple"}
                      THEN (IF a.items[1].tag \in {"list", "tuple"} /\ a.items[1].items # <<>>
                            THEN Some(a.items[1].items[1])
                            ELSE Some(a.items[1]))
                      ELSE None
         IN  IF IsNone(first) THEN None ELSE Some(Basename(StrOf(Val(first))))

\* f"{pid}"
PidStr(pid) == IF IsNone(pid) THEN "None" ELSE ToString(Val(pid))

\* get_process_info_hash of ApplicationManager: the key that is hashed
\* (sha256 keeps different keys apart)
GetProcessInfoHashOfApplicationManager(info) ==
    LET exe == ExtractExecutableNameFromArgs(info.args)
    IN  info.name \o PidStr(info.pid)
            \o (IF IsNone(exe) THEN "" ELSE Val(exe))
            \o (IF IsNone(info.start_time) THEN "" ELSE FloatStr(Val(info.start_time)))

\* get_process_info_hash of ProcessManager
GetProcessInfoHashOfProcessManager(info) ==
    info.name \o PidStr(info.pid)
        \o (IF IsNone(info.executable) THEN "None" ELSE AsPosix(Val(info.executable)))
        \o (IF IsNone(info.start_time) THEN "" ELSE FloatStr(Val(info.start_time)))

GetProcessInfoHash(info) ==
    IF manager_class = "ApplicationManager"
    THEN GetProcessInfoHashOfApplicationManager(info)
    ELSE GetProcessInfoHashOfProcessManager(info)

\* the dataclass ProcessInfo; executable is a field of process.py only
ProcessInfoOf(name, exe, args, env, cwd, pid, output, start_time) ==
    [name |-> name, executable |-> exe, args |-> args, env |-> env, cwd |-> cwd,
     pid |-> pid, active |-> FALSE, output |-> output, start_time |-> start_time,
     created_at |-> None]

\* the environment and working directory of a launch
LaunchEnv == [PATH |-> "/bin"]

Cwd == "/home"

\* the ProcessInfo the spawner builds (lines 1206-1215, 1362-1371)
ProcessInfo(name, pid, start_time, output) ==
    ProcessInfoOf(name, None, Some(PreparedLaunchArgs(launch_args)), LaunchEnv, Cwd,
                  pid, output, start_time)

\* json.dumps of an argument structure: lists and tuples become arrays
RECURSIVE JsonDumps(_)
JsonDumps(value) ==
    IF value.tag = "tok" THEN value
    ELSE Container("array", [i \in DOMAIN value.items |-> JsonDumps(value.items[i])])

\* json.loads: arrays become lists
RECURSIVE JsonLoads(_)
JsonLoads(text) ==
    IF text.tag = "tok" THEN text
    ELSE Container("list", [i \in DOMAIN text.items |-> JsonLoads(text.items[i])])

\* json.dumps / json.loads of a value that may be None ("null")
JsonDumpsOpt(value) == IF IsNone(value) THEN Token("null") ELSE JsonDumps(Val(value))

JsonLoadsOpt(text) == IF text = Token("null") THEN None ELSE Some(JsonLoads(text))

\* the row INSERT OR REPLACE writes; the executable column exists in the
\* table of ProcessManager only
ToRow(info, now) ==
    [name |-> info.name,
     executable |-> IF manager_class = "ProcessManager"
                    THEN Some(AsPosix(Val(info.executable))) ELSE None,
     args |-> JsonDumpsOpt(info.args),
     env |-> [type |-> "object", members |-> info.env],
     cwd |-> info.cwd,
     pid |-> info.pid,
     output_file |-> IF IsNone(info.output) THEN None ELSE Some(AsPosix(Val(info.output))),
     start_time |-> info.start_time,
     created_at |-> now]

TextTruthyNever(text) == FALSE

\* "if row[n]" on a TEXT column
TextTruthy(text) == ~IsNone(text) /\ Val(text) # ""

\* the ProcessInfo get_process_info builds from a row
FromRow(row) ==
    [ProcessInfoOf(row.name,
                   IF manager_class = "ProcessManager"
                   THEN Some(PathOf(Val(row.executable))) ELSE None,
                   JsonLoadsOpt(row.args),
                   row.env.members,
                   row.cwd,
                   row.pid,
                   IF TextTruthy(row.output_file) THEN Some(PathOf(Val(row.output_file)))
                   ELSE None,
                   row.start_time)
        EXCEPT !.created_at = Some(row.created_at)]

\* the values CURRENT_TIMESTAMP can have at the next INSERT, in seconds: the
\* clock does not go back, and two inserts can fall into one second
Nows(table) ==
    IF DOMAIN table = {} THEN {1}
    ELSE LET latest == CHOOSE t \in {table[k].created_at : k \in DOMAIN table} :
                           \A k \in DOMAIN table : table[k].created_at <= t
         IN  {latest, latest + 1}

\* the table after INSERT OR REPLACE of the row of info at the time now:
\* created_at is the column default, set anew when a row is replaced
Upsert(table, info, now) ==
    LET key == GetProcessInfoHash(info)
    IN  [k \in DOMAIN table \cup {key} |-> IF k = key THEN ToRow(info, now) ELSE table[k]]

StoreProcessInfoWithoutGuard(table, info, now) == Upsert(table, info, now)

\* store_process_info: a record without PID is not stored
StoreProcessInfo(table, info, now) ==
    IF IsNone(info.pid) THEN table ELSE Upsert(table, info, now)

\* get_process_info: None when no row has the hash
GetProcessInfo(table, key) ==
    IF key \in DOMAIN table THEN Some(FromRow(table[key])) ELSE None

\* delete_process_info: the table without the row of the hash
\* a DELETE without its WHERE clause
DeleteEveryProcessInfo(table, key) == <<>>

DeleteProcessInfo(table, key) == [k \in DOMAIN table \ {key} |-> table[k]]

(***************************************************************************)
(* The liveness verifier: _are_processes_running and its three tiers.  The *)
(* machine is os: procs maps the PID of every live process to its creation *)
(* time, its executable path and whether inspecting it is denied; psutil   *)
(* says that the module can be imported, proc_fs that /proc exists,        *)
(* utility what running tasklist (Windows) or ps (elsewhere) does: "ok",   *)
(* "fails" (it ends with an error status) or "missing" (it cannot be       *)
(* started).                                                               *)
(***************************************************************************)
OsProcess(create_time, exe, denied) ==
    [create_time |-> create_time, exe |-> exe, denied |-> denied]

\* a machine without processes of interest, with psutil
QuietOs ==
    [procs |-> <<>>, psutil |-> TRUE, proc_fs |-> TRUE, utility |-> "ok",
     environ |-> [PATH |-> "bin"]]

\* ProcessIdTriplet(pid, executable, start_time)
Triplet(pid, exe, start_time) == [pid |-> pid, exe |-> exe, start_time |-> start_time]

\* one (pid, is_running) of the result
Pair(pid, alive) == [pid |-> pid, alive |-> alive]

\* abs(a - b)
AbsDiff(a, b) == IF a >= b THEN a - b ELSE b - a

\* the tolerance of the start-time comparison, in seconds
StartTimeTolerance == 1

\* Path.name
PathName(path) == IF path = <<>> THEN "" ELSE path[Len(path)]

\* the candidates the psutil tier collects from exe(), name() and cmdline();
\* the first of them that is denied leaves the set empty
Candidates(p) ==
    IF p.denied THEN {}
    ELSE IF manager_class = "ApplicationManager"
    THEN {Lower(Basename(AsPosix(p.exe))), Lower(PathName(p.exe))}
    ELSE IF Lower(platform_system) = "windows"
    THEN {Lower(AsPosix(p.exe)), Lower(PathName(p.exe))}
    ELSE {AsPosix(p.exe), PathName(p.exe)}

\* the last comparison of _is_process_running_psutils
ExecutableMatches(expected, p) ==
    IF manager_class = "ApplicationManager"
    THEN Lower(expected) \in Candidates(p)
    ELSE IF Lower(platform_system) = "windows"
    THEN Lower(PathName(PathOf(expected))) \in Candidates(p)
    ELSE AsPosix(PathOf(expected)) \in Candidates(p)

\* "if start_time is not None": create_time() is readable and within the
\* tolerance
StartTimeMatches(start_time, p) ==
    IsNone(start_time)
        \/ (~p.denied /\ AbsDiff(p.create_time, Val(start_time)) <= StartTimeTolerance)

\* _is_process_running_psutils.  psutil.Process(pid) raises NoSuchProcess
\* only, so the handler of other exceptions in the caller is not entered.
IsProcessRunningPsutils(t) ==
    IF t.pid \notin DOMAIN os.procs THEN FALSE
    ELSE IF ~StartTimeMatches(t.start_time, os.procs[t.pid]) THEN FALSE
    ELSE IF IsNone(t.exe) \/ Val(t.exe) = "" THEN TRUE
    ELSE ExecutableMatches(Val(t.exe), os.procs[t.pid])

\* _check_processes_running_psutil
CheckProcessesRunningPsutil(batch) ==
    [i \in DOMAIN batch |-> Pair(batch[i].pid, IsProcessRunningPsutils(batch[i]))]

\* "expected_exe is None or image.lower() == expected_exe.lower()"
ImageMatches(expected_exe, image) ==
    IsNone(expected_exe) \/ Lower(image) = Lower(Val(expected_exe))

\* the elements of a set of numbers in ascending order
RECURSIVE Ascending(_)
Ascending(S) ==
    IF S = {} THEN <<>>
    ELSE LET least == CHOOSE x \in S : \A y \in S : x <= y
         IN  <<least>> \o Ascending(S \ {least})

\* the PIDs of the lines tasklist prints: the live processes among those the
\* filters name, taken to be listed once each by ascending PID
TasklistPids(batch) == Ascending({batch[i].pid : i \in DOMAIN batch} \cap DOMAIN os.procs)

\* the inner loop of _check_processes_running_win for one line of tasklist
TasklistLinePairs(pid, batch) ==
    LET expecting == SelectSeq(batch, LAMBDA t : t.pid = pid)
    IN  [i \in DOMAIN expecting |->
            Pair(pid, ImageMatches(expecting[i].exe, PathName(os.procs[pid].exe)))]

RECURSIVE TasklistPairs(_, _)
TasklistPairs(pids, batch) ==
    IF pids = <<>> THEN <<>>
    ELSE TasklistLinePairs(Head(pids), batch) \o TasklistPairs(Tail(pids), batch)

\* _check_processes_running_win when it returns: [] when tasklist fails with
\* CalledProcessError
CheckProcessesRunningWin(batch) ==
    IF os.utility = "ok" THEN TasklistPairs(TasklistPids(batch), batch) ELSE <<>>

\* one pass of the loop of _check_processes_running_unix: /proc/<pid>/exe,
\* then ps, then signal 0
UnixVerdict(t) ==
    LET exists == t.pid \in DOMAIN os.procs
    IN  IF exists /\ os.proc_fs /\ ~os.procs[t.pid].denied
        THEN ImageMatches(t.exe, PathName(os.procs[t.pid].exe))
        ELSE IF exists /\ os.utility = "ok"
        THEN ImageMatches(t.exe, PathName(os.procs[t.pid].exe))
        ELSE IF ~exists \/ os.procs[t.pid].denied
        THEN FALSE
        ELSE IsNone(t.exe)

\* _check_processes_running_unix
CheckProcessesRunningUnix(batch) ==
    [i \in DOMAIN batch |-> Pair(batch[i].pid, UnixVerdict(batch[i]))]

\* the tier _are_processes_running takes
Tier ==
    IF os.psutil THEN "psutil"
    ELSE IF Lower(platform_system) = "windows" THEN "tasklist"
    ELSE "unix"

\* subprocess.run cannot start the utility
FileNotFoundError == [type |-> "FileNotFoundError", origin |-> None]

\* _are_processes_running raises: subprocess.run(["tasklist", ...]) raises
\* FileNotFoundError, an OSError, and _check_processes_running_win catches
\* SubprocessError only; the Unix tier runs ps under suppress(Exception)
TasklistCannotStart == Tier = "tasklist" /\ os.utility = "missing"

AreProcessesRunningRaises(batch) == batch # <<>> /\ TasklistCannotStart

\* _are_processes_running when it returns
AreProcessesRunning(batch) ==
    IF batch = <<>> THEN <<>>
    ELSE IF Tier = "psutil" THEN CheckProcessesRunningPsutil(batch)
    ELSE IF Tier = "tasklist" THEN CheckProcessesRunningWin(batch)
    ELSE CheckProcessesRunningUnix(batch)

\* "if row[n]" on the INTEGER column pid
PidTruthy(pid) == ~IsNone(pid) /\ Val(pid) # 0

\* the ProcessInfo get_all_process_info builds from a row; ProcessManager
\* reads the output path under "if row[6]", the pid
FromRowAll(row) ==
    [FromRow(row) EXCEPT
        !.output = IF manager_class = "ProcessManager"
                   THEN (IF PidTruthy(row.pid) THEN Some(PathOf(Val(row.output_file)))
                         ELSE None)
                   ELSE @]

\* get_all_process_info of ProcessManager evaluates Path(None)
PathOfNone(table) ==
    /\ manager_class = "ProcessManager"
    /\ \E k \in DOMAIN table : PidTruthy(table[k].pid) /\ IsNone(table[k].output_file)

\* the exception that leaves get_all_process_info, if any: of the list of
\* records, or of _are_processes_running on the records with a PID
GetAllError(table) ==
    IF PathOfNone(table) THEN Some(TypeError)
    ELSE IF /\ \E k \in DOMAIN table : ~IsNone(table[k].pid)
            /\ TasklistCannotStart
    THEN Some(FileNotFoundError)
    ELSE None

GetAllRaises(table) == ~IsNone(GetAllError(table))

\* the orders in which "SELECT * ... ORDER BY created_at DESC" can give the
\* rows: rows of one second come in any order
RowOrders(table) ==
    {order \in [1..Cardinality(DOMAIN table) -> DOMAIN table] :
        /\ \A i, j \in DOMAIN order : i # j => order[i] # order[j]
        /\ \A i, j \in DOMAIN order :
               i < j => table[order[i]].created_at >= table[order[j]].created_at}

\* the triplet get_all_process_info builds for a record
TripletOf(proc) ==
    Triplet(Val(proc.pid),
            IF manager_class = "ApplicationManager"
            THEN ExtractExecutableNameFromArgs(proc.args)
            ELSE Some(AsPosix(Val(proc.executable))),
            proc.start_time)

\* get_all_process_info when it does not raise: the records of the rows in
\* the order given, the active flags set from the zip of the records with a
\* PID and the result of _are_processes_running
GetAllProcessInfo(table, order) ==
    LET processes == [i \in DOMAIN order |-> FromRowAll(table[order[i]])]
        processes_with_pid == SelectSeq(processes, LAMBDA proc : ~IsNone(proc.pid))
        running_status ==
            AreProcessesRunning([j \in DOMAIN processes_with_pid |->
                                    TripletOf(processes_with_pid[j])])
        \* the position of processes[i] in processes_with_pid
        rank(i) == Len(SelectSeq(SubSeq(processes, 1, i), LAMBDA proc : ~IsNone(proc.pid)))
    IN  [i \in DOMAIN processes |->
            [processes[i] EXCEPT
                !.active = /\ ~IsNone(processes[i].pid)
                           /\ rank(i) <= Len(running_status)
                           /\ running_status[rank(i)].alive]]

\* delete_inactive_processes: the hashes it deletes, computed from the
\* records get_all_process_info returned
InactiveHashes(all_processes) ==
    {GetProcessInfoHash(all_processes[i]) :
        i \in {j \in DOMAIN all_processes : ~all_processes[j].active}}

\* the table after "DELETE ... WHERE hash IN (...)"
DeleteInactiveProcesses(table, all_processes) ==
    [k \in DOMAIN table \ InactiveHashes(all_processes) |-> table[k]]

(***************************************************************************)
(* The shared store.  ApplicationManager (the launch path) and             *)
(* ProcessManager (the process monitor) open the same process_handlers.db; *)
(* the class that connects first creates the table with its own columns,   *)
(* and "SELECT *" gives the columns of a row in the order of the table.    *)
(***************************************************************************)
\* "CREATE TABLE IF NOT EXISTS process_info (...)" of the class
ColumnsOf(class) ==
    IF class = "ProcessManager"
    THEN <<"hash", "name", "executable", "args", "env", "cwd", "pid", "output_file",
           "start_time", "created_at", "site_id">>
    ELSE <<"hash", "name", "args", "env", "cwd", "pid", "output_file", "start_time",
           "created_at", "site_id">>

\* a value of a column: NULL, a text that is JSON, another text, or a number
Column(kind, value) == [kind |-> kind, value |-> value]

OptionalColumn(kind, value) ==
    IF IsNone(value) THEN Column("null", None) ELSE Column(kind, Val(value))

\* the value of the named column in the row of a key
ColumnValue(key, row, name) ==
    CASE name = "hash" -> Column("text", key)
      [] name = "name" -> Column("text", row.name)
      [] name = "executable" -> OptionalColumn("text", row.executable)
      [] name = "args" -> Column("json", row.args)
      [] name = "env" -> Column("json", row.env)
      [] name = "cwd" -> Column("text", row.cwd)
      [] name = "pid" -> OptionalColumn("number", row.pid)
      [] name = "output_file" -> OptionalColumn("text", row.output_file)
      [] name = "start_time" -> OptionalColumn("number", row.start_time)
      [] name = "created_at" -> Column("number", row.created_at)
      [] OTHER -> Column("text", "site")

\* a row of "SELECT * FROM process_info" on the table the class created
SelectStar(key, row, creator) ==
    [i \in DOMAIN ColumnsOf(creator) |-> ColumnValue(key, row, ColumnsOf(creator)[i])]

\* "if row[n]"
ColumnTruthy(column) ==
    /\ column.kind # "null"
    /\ column.kind = "text" => column.value # ""
    /\ column.kind = "number" => column.value # 0

IndexError == [type |-> "IndexError", origin |-> None]

\* Path(row[n]): a text gives a path, NULL and numbers raise TypeError
PathError(column) ==
    IF column.kind \in {"text", "json"} THEN None ELSE Some(TypeError)

\* "json.loads(row[n]) if row[n] else ...": a text that is not JSON raises
\* JSONDecodeError, a ValueError; a number raises TypeError
JsonLoadsError(column) ==
    IF ~ColumnTruthy(column) \/ column.kind = "json" THEN None
    ELSE IF column.kind = "text" THEN Some(ValueError)
    ELSE Some(TypeError)

\* the exception of the ProcessInfo(...) expression of get_all_process_info
\* of ProcessManager on a selected row (row[n] is columns[n + 1]); the
\* arguments are evaluated in the order written
ProcessManagerRowError(columns) ==
    IF ~IsNone(PathError(columns[3])) THEN PathError(columns[3])
    ELSE IF ~IsNone(JsonLoadsError(columns[4])) THEN JsonLoadsError(columns[4])
    ELSE IF ~IsNone(JsonLoadsError(columns[5])) THEN JsonLoadsError(columns[5])
    ELSE IF ColumnTruthy(columns[7]) /\ ~IsNone(PathError(columns[8]))
    THEN PathError(columns[8])
    ELSE IF Len(columns) < 11 THEN Some(IndexError)
    ELSE None

\* the record ProcessManager builds from a selected row
ProcessManagerRecord(columns) ==
    [name |-> columns[2].value, executable |-> columns[3].value,
     args |-> columns[4].value, env |-> columns[5].value, cwd |-> columns[6].value,
     pid |-> columns[7].value, start_time |-> columns[9].value]

\* the exception that leaves get_all_process_info of ProcessManager on the
\* rows in the order selected: the one of the first row that has one
RECURSIVE FirstRowError(_, _, _)
FirstRowError(table, order, creator) ==
    IF order = <<>> THEN None
    ELSE LET error == ProcessManagerRowError(
                          SelectStar(order[1], table[order[1]], creator))
         IN  IF IsNone(error)
             THEN FirstRowError(table, [i \in 1..(Len(order) - 1) |-> order[i + 1]],
                                creator)
             ELSE error

(***************************************************************************)
(* The launch environment.  An environment is a function from its keys to  *)
(* their values; os.environ is the environment of the launching process.   *)
(***************************************************************************)
\* __init__: ignored_env
IgnoredEnv == {"QT_API"}

\* the environment without the given keys
EnvWithout(env, keys) == [key \in DOMAIN env \ keys |-> env[key]]

\* __init__: the "env" of the data (None: not passed, os.environ is taken)
\* without the ignored keys
ConstructedEnv(src_env, environ) ==
    EnvWithout(IF IsNone(src_env) THEN environ ELSE Val(src_env), IgnoredEnv)

\* __init__: self.kwargs = {"env": env}
InitialKwargs(src_env, environ) == [env |-> Some(ConstructedEnv(src_env, environ))]

\* ApplicationLaunchContext.env: the getter sets {} where there is none
ContextEnv(kw) == IF IsNone(kw.env) THEN <<>> ELSE Val(kw.env)

\* execute() of a hook of the class: self.launch_context.env[key] = "hook"
HookExecute(cls, kw) ==
    IF cls.sets_env = {} THEN kw
    ELSE [kw EXCEPT !.env =
              Some([key \in DOMAIN ContextEnv(kw) \cup cls.sets_env |->
                        IF key \in cls.sets_env THEN "hook" ELSE ContextEnv(kw)[key]])]

\* _run_process on the mid-process path: app_env = self.kwargs.pop("env", {})
AppEnv(kw) == IF IsNone(kw.env) THEN <<>> ELSE Val(kw.env)

\* _run_process on the mid-process path: "if app_env:" the kwargs get the
\* items of os.environ whose key is in app_env, else they stay without "env"
MidProcessKwargs(kw, environ) ==
    IF AppEnv(kw) = <<>> THEN [kw EXCEPT !.env = None]
    ELSE [kw EXCEPT !.env =
              Some([key \in DOMAIN environ \cap DOMAIN AppEnv(kw) |-> environ[key]])]

\* what a spawn hands down: json_env is the "env" of the handshake JSON (None
\* on the direct paths), popen_env the env keyword of subprocess.Popen (None:
\* no keyword), child_env the environment the created process starts with,
\* which is the one of the launching process when Popen gets no env
PassedEnv(kw, environ, mid) ==
    LET passed == IF mid THEN MidProcessKwargs(kw, environ) ELSE kw
    IN  [json_env |-> IF mid THEN Some(AppEnv(kw)) ELSE None,
         popen_env |-> passed.env,
         child_env |-> IF IsNone(passed.env) THEN environ ELSE Val(passed.env)]

(***************************************************************************)
(* The process spawner: ApplicationLaunchContext._run_process.  An outcome *)
(* says whether the operating system created a process, the handle the     *)
(* spawner holds, the ProcessInfo it built, whether store_process_info     *)
(* committed it, and the exception that left the spawner, if any.          *)
(***************************************************************************)
Outcome(spawned, handle, info, stored, error) ==
    [spawned |-> spawned, handle |-> handle, info |-> info, stored |-> stored,
     error |-> error, handshake |-> None, created |-> <<>>]

\* what a run did with the handshake JSON, in order, and whether the file is
\* on disk when the run ends.  "written": json.dump into the temporary file;
\* "exited": process.wait() returned; "open_failed": open() raised OSError;
\* "read": json.load ran on the open file; "removed": os.remove returned;
\* "remove_failed": os.remove raised
Handshake(steps, exists) == Some([steps |-> steps, exists |-> exists])

WithHandshake(outcome, steps, exists) ==
    [outcome EXCEPT !.handshake = Handshake(steps, exists)]

\* the creation time the operating system reports, while the spawner runs,
\* for the target process of the outcome
WithCreated(outcome, pid, create_time) ==
    [outcome EXCEPT !.created = [p \in {pid} |-> create_time]]

\* _get_process_start_time(process) on the handle of the target:
\* psutil.Process(process.pid).create_time(), or None where psutil raises
TargetStartTimes == {None} \cup {Some(t) : t \in StartTimes}

\* creation times of processes that got the PID of an ended process
LaterTimes == {12}

\* _get_process_start_time(process) on the handle of the intermediary after
\* process.wait(): the process is gone (NoSuchProcess gives None) unless its
\* PID went to another process, whose creation time is then returned
IntermediaryStartTimes == {None} \cup {Some(t) : t \in LaterTimes}

Handle(pid, role) == [pid |-> pid, role |-> role]

\* the temporary file that takes the output of the process
OutputFile == <<"tmp", "ayon_output.txt">>

\* subprocess.Popen refused to create the process
PopenFailedAfterStore ==
    Outcome(FALSE, None, Some(ProcessInfo("", Some(0), None, None)), TRUE, Some(OSError))

\* subprocess.Popen refused to create the process
PopenFailed == Outcome(FALSE, None, None, FALSE, Some(OSError))

ExecuteWithoutStore(app) ==
    {PopenFailed} \cup
    {Outcome(TRUE, Some(Handle(pid, "target")), None, FALSE, None) : pid \in Pids}

\* _execute_with_stdout: Popen, _get_process_start_time, store_process_info
ExecuteWithStdoutOutcomes(app) ==
    {PopenFailed} \cup
    {LET outcome ==
             Outcome(TRUE, Some(Handle(pid, "target")),
                     Some(ProcessInfo(app.full_name, Some(pid), start, Some(OutputFile))),
                     store_ok,
                     IF store_ok THEN None ELSE Some(StorageError))
     IN  IF IsNone(start) THEN outcome ELSE WithCreated(outcome, pid, Val(start)) :
        pid \in Pids, start \in TargetStartTimes, store_ok \in BOOLEAN}

\* Linux without the mid-process launcher: a plain Popen, nothing is stored
DirectPopenOutcomes ==
    {PopenFailed} \cup
    {Outcome(TRUE, Some(Handle(pid, "target")), None, FALSE, None) : pid \in Pids}

\* Linux through the mid process: the handshake JSON is written, then Popen
\* of the intermediary, wait, open and json.load of the handshake, store,
\* os.remove of the handshake
MidProcessOutcomes(app) ==
    \* Popen raises: nothing after it runs
    {WithHandshake(PopenFailed, <<"written">>, TRUE)} \cup
    \* the handshake cannot be opened: OSError is logged, nothing is stored;
    \* os.remove then removes the file, or raises because the file is not
    \* there or because removing is not permitted either
    {WithHandshake(Outcome(TRUE, Some(Handle(mid, "intermediary")), None, FALSE, None),
                   <<"written", "exited", "open_failed", "removed">>, FALSE) :
        mid \in Pids} \cup
    {WithHandshake(Outcome(TRUE, Some(Handle(mid, "intermediary")), None, FALSE,
                           Some(OSError)),
                   <<"written", "exited", "open_failed", "remove_failed">>, exists) :
        mid \in Pids, exists \in BOOLEAN} \cup
    \* the handshake is not JSON: json.load raises ValueError
    {WithHandshake(Outcome(TRUE, Some(Handle(mid, "intermediary")), None, FALSE,
                           Some(ValueError)),
                   <<"written", "exited", "read">>, TRUE) :
        mid \in Pids} \cup
    \* the handshake is read without a pid: store_process_info returns early
    {WithHandshake(Outcome(TRUE, Some(Handle(mid, "intermediary")),
                           Some(ProcessInfo(app.full_name, None, None, Some(OutputFile))),
                           TRUE, None),
                   <<"written", "exited", "read", "removed">>, FALSE) :
        mid \in Pids} \cup
    \* the handshake is read with the pid of the target: stored and removed,
    \* or store_process_info raises
    UNION {
        {WithCreated(
             WithHandshake(Outcome(TRUE, Some(Handle(mid, "intermediary")),
                                   Some(ProcessInfo(app.full_name, Some(pid), start,
                                                    Some(OutputFile))),
                                   store_ok,
                                   IF store_ok THEN None ELSE Some(StorageError)),
                           IF store_ok THEN <<"written", "exited", "read", "removed">>
                           ELSE <<"written", "exited", "read">>,
                           ~store_ok),
             pid, created) :
            pid \in Pids \ {mid},
            start \in IntermediaryStartTimes,
            created \in StartTimes,
            store_ok \in BOOLEAN} :
        mid \in Pids}

\* the files tempfile.NamedTemporaryFile(delete=False) left on disk in a run
\* with outcome o: one before Popen in _execute_with_stdout and in the mid
\* process branch, none in the plain Popen of Linux
CreatedOutputFiles(o, app, system) ==
    IF Lower(system) \in {"windows", "darwin"}
    THEN {{OutputFile}}
    ELSE {{} : x \in {o} \cap DirectPopenOutcomes}
             \cup {{OutputFile} : x \in {o} \cap MidProcessOutcomes(app)}

\* _run_process: the branch the platform selects
RunProcessOutcomes(app, system) ==
    IF Lower(system) \in {"windows", "darwin"}
    THEN ExecuteWithStdoutOutcomes(app)
    ELSE DirectPopenOutcomes \cup MidProcessOutcomes(app)

(***************************************************************************)
(* The calls on one ApplicationLaunchContext.  The caller is single-       *)
(* threaded: a call starts when none is running (pc = "idle").             *)
(***************************************************************************)
NoCall == [op |-> "none", n |-> 0]

NewCall(op) == [op |-> op, n |-> ncalls + 1]

StartCall(op) ==
    /\ pc = "idle"
    /\ ncalls < MaxCalls
    /\ ncalls' = ncalls + 1
    /\ call' = NewCall(op)

\* the running call ends: it returned a value or an exception left it
EndCall(c, events) ==
    /\ pc' = "idle"
    /\ idx' = 0
    /\ log' = log \o events

\* discover_launch_hooks(force) called from outside
CallDiscover ==
    \E force \in BOOLEAN :
        LET c == NewCall("discover_launch_hooks")
        IN  /\ StartCall("discover_launch_hooks")
            /\ DiscoverLaunchHooks(force)
            /\ EndCall(c, <<Event(c, "call", None, Some([force |-> force])),
                            IF IsNone(Discovery(force).error)
                            THEN Event(c, "return", None, None)
                            ELSE Event(c, "raise", None, Discovery(force).error)>>)
            /\ UNCHANGED <<config_vars, output_files, thread_vars, process, prelaunch_hooks_executed, registry, launch_args, kwargs>>

\* the rest of the context is left alone by the registry methods
context_vars ==
    <<config_vars, discovery_vars, process, prelaunch_hooks_executed, launch_args,
      kwargs>>

\* store_process_info(process_info) called from outside
CallStoreProcessInfo(records) ==
    \E info \in records, now \in Nows(registry) :
        LET c == NewCall("store_process_info")
        IN  /\ StartCall("store_process_info")
            /\ registry' = StoreProcessInfo(registry, info, now)
            /\ EndCall(c, <<Event(c, "call", None, Some(info)),
                            Event(c, "return", None, None)>>)
            /\ UNCHANGED <<context_vars, output_files, thread_vars>>

\* get_process_info(process_hash) called from outside
CallGetProcessInfo(keys) ==
    \E key \in keys :
        LET c == NewCall("get_process_info")
        IN  /\ StartCall("get_process_info")
            /\ EndCall(c, <<Event(c, "call", None, Some([process_hash |-> key])),
                            Event(c, "return", None, GetProcessInfo(registry, key))>>)
            /\ UNCHANGED <<context_vars, registry, output_files, thread_vars>>

\* delete_process_info(process_hash) called from outside
CallDeleteProcessInfo(keys) ==
    \E key \in keys :
        LET c == NewCall("delete_process_info")
        IN  /\ StartCall("delete_process_info")
            /\ registry' = DeleteProcessInfo(registry, key)
            /\ EndCall(c, <<Event(c, "call", None, Some([process_hash |-> key])),
                            Event(c, "return", None,
                                  Some([deleted |-> key \in DOMAIN registry]))>>)
            /\ UNCHANGED <<context_vars, output_files, thread_vars>>

\* get_all_process_info() called from outside; the call event holds the
\* table the call found
CallGetAllProcessInfo ==
    \E order \in RowOrders(registry) :
        LET c == NewCall("get_all_process_info")
            called == Event(c, "call", None, Some([table |-> registry]))
        IN  /\ StartCall("get_all_process_info")
            /\ IF GetAllRaises(registry)
               THEN EndCall(c, <<called, Event(c, "raise", None, GetAllError(registry))>>)
               ELSE EndCall(c, <<called,
                                 Event(c, "return", None,
                                       Some([processes |->
                                                GetAllProcessInfo(registry, order)]))>>)
            /\ UNCHANGED <<context_vars, registry, output_files, thread_vars>>

\* the class that created the table of the shared store: the one of the
\* first connection, which ApplicationManager makes in its first store of a
\* record with a PID and ProcessManager in its first call
TableCreator ==
    LET firsts == {i \in DOMAIN log :
                      \/ log[i].ev = "store"
                      \/ log[i].op = "ProcessManager.get_all_process_info"}
    IN  IF \E i \in firsts : log[i].ev = "store" /\ \A j \in firsts : i <= j
        THEN "ApplicationManager"
        ELSE "ProcessManager"

\* get_all_process_info() of the ProcessManager of the process monitor on the
\* store the launches of this ApplicationManager write to; the monitor can
\* list once more when the other calls are used up
CallMonitorGetAll ==
    \E order \in RowOrders(registry) :
        LET c == NewCall("ProcessManager.get_all_process_info")
            called == Event(c, "call", None,
                            Some([table |-> registry, creator |-> TableCreator]))
            error == FirstRowError(registry, order, TableCreator)
        IN  /\ manager_class = "ApplicationManager"
            /\ pc = "idle"
            /\ ncalls <= MaxCalls
            /\ ncalls' = ncalls + 1
            /\ call' = c
            /\ IF IsNone(error)
               THEN EndCall(c, <<called,
                                 Event(c, "return", None,
                                       Some([processes |->
                                                [i \in DOMAIN order |->
                                                    ProcessManagerRecord(
                                                        SelectStar(order[i],
                                                                   registry[order[i]],
                                                                   TableCreator))]]))>>)
               ELSE EndCall(c, <<called, Event(c, "raise", None, error)>>)
            /\ UNCHANGED <<context_vars, registry, output_files, thread_vars>>

\* _are_processes_running(pid_triplets) called from outside, once
CallAreProcessesRunning(batches) ==
    \E batch \in batches :
        LET c == NewCall("_are_processes_running")
        IN  /\ ncalls = 0
            /\ StartCall("_are_processes_running")
            /\ EndCall(c, <<Event(c, "call", None, Some([pid_triplets |-> batch])),
                            IF AreProcessesRunningRaises(batch)
                            THEN Event(c, "raise", None, Some(FileNotFoundError))
                            ELSE Event(c, "return", None,
                                       Some([result |-> AreProcessesRunning(batch)]))>>)
            /\ UNCHANGED <<context_vars, registry, output_files, thread_vars>>

\* delete_inactive_processes() called from outside; the call event holds the
\* table the call found and what its get_all_process_info returned
CallDeleteInactiveProcesses ==
    \E order \in RowOrders(registry) :
        LET c == NewCall("delete_inactive_processes")
        IN  /\ StartCall("delete_inactive_processes")
            /\ IF GetAllRaises(registry)
               THEN /\ registry' = registry
                    /\ EndCall(c, <<Event(c, "call", None, Some([table |-> registry])),
                                    Event(c, "raise", None, GetAllError(registry))>>)
               ELSE LET all_processes == GetAllProcessInfo(registry, order)
                    IN  /\ registry' = DeleteInactiveProcesses(registry, all_processes)
                        /\ EndCall(c,
                               <<Event(c, "call", None,
                                       Some([table |-> registry,
                                             all_processes |-> all_processes])),
                                 Event(c, "return", None,
                                       Some([count |->
                                           Cardinality(DOMAIN registry
                                               \cap InactiveHashes(all_processes))]))>>)
            /\ UNCHANGED <<context_vars, output_files, thread_vars>>

\* run_prelaunch_hooks up to its loop: the guard and the discovery; called
\* holds the events of the entry into the call
EnterRunPrelaunchHooks(c, called) ==
    IF prelaunch_hooks_executed
    THEN /\ EndCall(c, called \o <<Event(c, "return", None, None)>>)
         /\ UNCHANGED discovery_vars
    ELSE /\ DiscoverLaunchHooks(FALSE)
         /\ IF IsNone(Discovery(FALSE).error)
            THEN /\ pc' = "pre"
                 /\ idx' = 1
                 /\ log' = log \o called
            ELSE EndCall(c, called \o <<Event(c, "raise", None, Discovery(FALSE).error)>>)

\* run_prelaunch_hooks() called from outside
CallRunPrelaunchHooks ==
    LET c == NewCall("run_prelaunch_hooks")
    IN  /\ StartCall("run_prelaunch_hooks")
        /\ EnterRunPrelaunchHooks(c, <<Event(c, "call", None, None)>>)
        /\ UNCHANGED <<config_vars, output_files, thread_vars, process, prelaunch_hooks_executed, registry, launch_args, kwargs>>

LaunchSkipsPrelaunchAlways == TRUE

\* launch(): "if not self._prelaunch_hooks_executed" is false
LaunchSkipsPrelaunch == prelaunch_hooks_executed

\* launch() up to the spawn: the guards, then run_prelaunch_hooks
EnterLaunch(c, called) ==
    IF ~IsNone(process)
    THEN /\ EndCall(c, called \o <<Event(c, "return", None, None)>>)
         /\ UNCHANGED discovery_vars
    ELSE IF LaunchSkipsPrelaunch
    THEN /\ pc' = "spawn"
         /\ idx' = 0
         /\ log' = log \o called
         /\ UNCHANGED discovery_vars
    ELSE EnterRunPrelaunchHooks(c, called)

\* launch() called from outside
CallLaunch ==
    LET c == NewCall("launch")
    IN  /\ StartCall("launch")
        /\ EnterLaunch(c, <<Event(c, "call", None, None)>>)
        /\ UNCHANGED <<config_vars, output_files, thread_vars, process, prelaunch_hooks_executed, registry, launch_args, kwargs>>

ApplicationNotFound == [type |-> "ApplicationNotFound", origin |-> None]

ApplicationExecutableNotFound == [type |-> "ApplicationExecutableNotFound", origin |-> None]

\* ApplicationManager.applications: the applications of the settings by
\* full name
ManagerApplications == {app.full_name : app \in Applications}

ExecutableMissingNever == FALSE

\* launch_with_context: "if not launch_context.executable"
ExecutableMissing == IsNone(executable)

\* ApplicationManager.launch(app_name): create_launch_context, then
\* launch_with_context.  The context of the state is the one the call
\* creates, so the call is the first on it and a known app_name is the name of
\* its application.
CallManagerLaunch ==
    \E app_name \in ManagerApplications \cup {"unknown/1"} :
        LET c == NewCall("ApplicationManager.launch")
            called == <<Event(c, "call", None, Some([app_name |-> app_name]))>>
        IN  /\ ncalls = 0
            /\ StartCall("ApplicationManager.launch")
            /\ IF app_name \notin ManagerApplications
               THEN /\ EndCall(c, called \o <<Event(c, "raise", None, Some(ApplicationNotFound))>>)
                    /\ UNCHANGED discovery_vars
               ELSE /\ app_name = application.full_name
                    /\ IF ExecutableMissing
                       THEN /\ EndCall(c, called \o <<Event(c, "raise", None,
                                                            Some(ApplicationExecutableNotFound))>>)
                            /\ UNCHANGED discovery_vars
                       ELSE EnterLaunch(c, called)
            /\ UNCHANGED <<config_vars, output_files, thread_vars, process, prelaunch_hooks_executed, registry, launch_args, kwargs>>

\* the loop of run_prelaunch_hooks calls execute() of the next hook
PreHookStart ==
    /\ pc = "pre"
    /\ idx <= Len(Val(prelaunch_hooks))
    /\ pc' = "in_pre"
    /\ log' = Append(log, Event(call, "pre_start", Some(Val(prelaunch_hooks)[idx]), None))
    /\ UNCHANGED <<config_vars, output_files, thread_vars, prelaunch_hooks, postlaunch_hooks, process,
                   prelaunch_hooks_executed, discoveries, built, instantiated, call,
                   idx, ncalls, registry, launch_args, kwargs>>

PreHookRaisedIsSwallowed(hook) ==
    /\ pc' = "pre"
    /\ idx' = idx + 1
    /\ log' = Append(log, Event(call, "pre_end", Some(hook), Some(HookError(hook))))

\* execute() of a pre-launch hook raised: nothing catches it, it leaves the call
PreHookRaised(hook) ==
    EndCall(call, <<Event(call, "pre_end", Some(hook), Some(HookError(hook))),
                    Event(call, "raise", None, Some(HookError(hook)))>>)

\* execute() of the running pre-launch hook ends: it returns or raises
PreHookEnd ==
    /\ pc = "in_pre"
    /\ LET hook == Val(prelaunch_hooks)[idx]
       IN  \E raised \in BOOLEAN :
               IF raised
               THEN /\ PreHookRaised(hook)
                    /\ kwargs' = kwargs
               ELSE /\ pc' = "pre"
                    /\ idx' = idx + 1
                    /\ log' = Append(log, Event(call, "pre_end", Some(hook), None))
                    /\ kwargs' = HookExecute(hook_classes[hook.kind][hook.cls], kwargs)
    /\ UNCHANGED <<config_vars, output_files, thread_vars, prelaunch_hooks, postlaunch_hooks, process,
                   prelaunch_hooks_executed, discoveries, built, instantiated, call,
                   ncalls, registry, launch_args>>

RunPrelaunchHooksGoesOn == FALSE

\* run_prelaunch_hooks was called from outside: its end is the end of the call
RunPrelaunchHooksReturns == call.op = "run_prelaunch_hooks"

\* the loop of run_prelaunch_hooks is over: the flag is set; launch() goes on
PreHooksDone ==
    /\ pc = "pre"
    /\ idx > Len(Val(prelaunch_hooks))
    /\ prelaunch_hooks_executed' = TRUE
    /\ IF RunPrelaunchHooksReturns
       THEN EndCall(call, <<Event(call, "return", None, None)>>)
       ELSE /\ pc' = "spawn"
            /\ idx' = 0
            /\ log' = log
    /\ UNCHANGED <<config_vars, output_files, thread_vars, prelaunch_hooks, postlaunch_hooks, process,
                   discoveries, built, instantiated, call, ncalls, registry, launch_args, kwargs>>

\* what one run of the spawner adds to the history
SpawnEvents(o) ==
    <<Event(call, "spawn_start", None,
            Some([given |-> launch_args, passed |-> PreparedLaunchArgs(launch_args),
                  env |-> PassedEnv(kwargs, os.environ, ~IsNone(o.handshake)),
                  created |-> o.created]))>>
        \o (IF o.spawned THEN <<Event(call, "popen_ok", None, o.handle)>> ELSE <<>>)
        \o (IF o.stored /\ ~IsNone(Val(o.info).pid)
            THEN <<Event(call, "store", None, o.info)>> ELSE <<>>)
        \o (IF IsNone(o.handshake) THEN <<>>
            ELSE <<Event(call, "handshake", None, o.handshake)>>)
        \o (IF IsNone(o.error)
            THEN <<Event(call, "spawn_end", None, o.handle)>>
            ELSE <<Event(call, "raise", None, o.error)>>)

\* launch(): self.process = self._run_process()
RunProcess ==
    /\ pc = "spawn"
    /\ launch_args' = PreparedLaunchArgs(launch_args)
    /\ \E o \in RunProcessOutcomes(application, platform_system), now \in Nows(registry) :
           /\ registry' = IF o.stored THEN StoreProcessInfo(registry, Val(o.info), now)
                          ELSE registry
           /\ \E created \in CreatedOutputFiles(o, application, platform_system) :
                  output_files' = output_files \cup created
           /\ kwargs' = IF IsNone(o.handshake) THEN kwargs
                         ELSE MidProcessKwargs(kwargs, os.environ)
           /\ IF IsNone(o.error) /\ IsNone(postlaunch_hooks)
              THEN \* "for hook in self.postlaunch_hooks" on None
                   /\ process' = o.handle
                   /\ EndCall(call, SpawnEvents(o)
                                        \o <<Event(call, "raise", None, Some(TypeError))>>)
              ELSE IF IsNone(o.error)
              THEN /\ process' = o.handle
                   /\ pc' = "post"
                   /\ idx' = 1
                   /\ log' = log \o SpawnEvents(o)
              ELSE /\ process' = process
                   /\ EndCall(call, SpawnEvents(o))
    /\ UNCHANGED <<config_vars, thread_vars, prelaunch_hooks, postlaunch_hooks,
                   prelaunch_hooks_executed, discoveries, built, instantiated, call,
                   ncalls>>

\* the loop of launch() calls execute() of the next post-launch hook
PostHookStart ==
    /\ pc = "post"
    /\ idx <= Len(Val(postlaunch_hooks))
    /\ pc' = "in_post"
    /\ log' = Append(log, Event(call, "post_start", Some(Val(postlaunch_hooks)[idx]), None))
    /\ UNCHANGED <<config_vars, output_files, thread_vars, prelaunch_hooks, postlaunch_hooks, process,
                   prelaunch_hooks_executed, discoveries, built, instantiated, call,
                   idx, ncalls, registry, launch_args, kwargs>>

PostHookRaisedPropagates(hook) ==
    EndCall(call, <<Event(call, "post_end", Some(hook), Some(HookError(hook))),
                    Event(call, "raise", None, Some(HookError(hook)))>>)

\* execute() of a post-launch hook raised: caught and logged, the loop goes on
PostHookRaised(hook) ==
    /\ pc' = "post"
    /\ idx' = idx + 1
    /\ log' = Append(log, Event(call, "post_end", Some(hook), Some(HookError(hook))))

\* execute() of the running post-launch hook ends: it returns or raises
PostHookEnd ==
    /\ pc = "in_post"
    /\ LET hook == Val(postlaunch_hooks)[idx]
       IN  \E raised \in BOOLEAN :
               IF raised
               THEN PostHookRaised(hook)
               ELSE /\ pc' = "post"
                    /\ idx' = idx + 1
                    /\ log' = Append(log, Event(call, "post_end", Some(hook), None))
    /\ UNCHANGED <<config_vars, output_files, thread_vars, prelaunch_hooks, postlaunch_hooks, process,
                   prelaunch_hooks_executed, discoveries, built, instantiated, call,
                   ncalls, registry, launch_args, kwargs>>

\* the loop over the post-launch hooks is over: launch() returns self.process
PostHooksDone ==
    /\ pc = "post"
    /\ idx > Len(Val(postlaunch_hooks))
    /\ EndCall(call, <<Event(call, "return", None, process)>>)
    /\ UNCHANGED <<config_vars, output_files, thread_vars, prelaunch_hooks, postlaunch_hooks, process,
                   prelaunch_hooks_executed, discoveries, built, instantiated, call,
                   ncalls, registry, launch_args, kwargs>>

(***************************************************************************)
(* Specifications.                                                         *)
(***************************************************************************)
\* hook classes of the launch pipeline: plain hooks, which run for a local launch
LaunchClasses == {DefaultHook}

(***************************************************************************)
(* Threads of a thread pool calling one ProcessManager (the workers of the *)
(* process monitor).  A registry method is not atomic: a thread gets its   *)
(* connection, then executes on it, and other threads run in between.      *)
(***************************************************************************)
Threads == 1..MaxThreads

\* a thread that runs no call
IdleWorker == [pc |-> "idle", call |-> NoCall, cnx |-> None, arg |-> None, seen |-> None]

\* one attribute for all threads instead of threading.local
SharedConnection(t) ==
    IF \A u \in Threads : IsNone(thread_local[u]) THEN None
    ELSE thread_local[CHOOSE u \in Threads : ~IsNone(thread_local[u])]

\* hasattr(self._thread_local, "connection") / self._thread_local.connection
\* as thread t sees them
ThreadLocalConnection(t) == thread_local[t]

\* what a thread does with a connection, for the history
Executes(t, c, cnx) ==
    Event(c, "execute", None, Some([thread |-> t, connection |-> Val(cnx)]))

\* ProcessRefreshWorker.run and CleanupWorker.run enter a registry method in
\* thread t
ThreadCall(t, keys) ==
    /\ manager_class = "ProcessManager"
    /\ workers[t].pc = "idle"
    /\ pc = "idle"
    /\ ncalls < MaxCalls
    /\ \E op \in {"get_all_process_info", "delete_process_info",
                   "delete_inactive_processes"} :
           \E arg \in IF op = "delete_process_info" THEN {Some(key) : key \in keys}
                       ELSE {None} :
               LET c == NewCall(op)
               IN  /\ workers' = [workers EXCEPT
                                     ![t] = [pc |-> "connection", call |-> c, cnx |-> None,
                                             arg |-> arg, seen |-> None]]
                   /\ log' = Append(log, Event(c, "call", None,
                                               Some([thread |-> t, process_hash |-> arg])))
    /\ ncalls' = ncalls + 1
    /\ UNCHANGED <<context_vars, registry, output_files, window, thread_local, connections,
                   pc, call, idx>>

\* _get_process_storage_connection in thread t, up to sqlite3.connect: the
\* connection of the thread is returned when it has one, else one is made
\* and the table created
ThreadGetConnection(t) ==
    /\ workers[t].pc = "connection"
    /\ IF ~IsNone(ThreadLocalConnection(t))
       THEN /\ workers' = [workers EXCEPT ![t].pc = "execute",
                                          ![t].cnx = ThreadLocalConnection(t)]
            /\ connections' = connections
            /\ log' = log
       ELSE LET cnx == Len(connections) + 1
            IN  /\ workers' = [workers EXCEPT ![t].pc = "keep", ![t].cnx = Some(cnx)]
                /\ connections' = Append(connections, t)
                /\ log' = Append(log, Event(workers[t].call, "connect", None,
                                            Some([thread |-> t, connection |-> cnx])))
    /\ UNCHANGED <<context_vars, registry, output_files, window, thread_local, pc, call, idx,
                   ncalls>>

\* "self._thread_local.connection = cnx; return self._thread_local.connection"
ThreadKeepConnection(t) ==
    /\ workers[t].pc = "keep"
    /\ thread_local' = [thread_local EXCEPT ![t] = workers[t].cnx]
    /\ workers' = [workers EXCEPT ![t].pc = "execute", ![t].cnx = workers[t].cnx]
    /\ UNCHANGED <<context_vars, registry, output_files, window, connections, pc, call, idx,
                   ncalls, log>>

\* the rest of the method in thread t on the connection it got.
\* delete_inactive_processes first calls get_all_process_info, which asks for
\* the connection of the thread again
ThreadExecute(t) ==
    LET w == workers[t]
        c == w.call
        again == ThreadLocalConnection(t)
    IN  /\ w.pc = "execute"
        /\ IF c.op = "delete_process_info"
           THEN /\ registry' = DeleteProcessInfo(registry, Val(w.arg))
                /\ workers' = [workers EXCEPT ![t] = IdleWorker]
                /\ log' = log \o <<Executes(t, c, w.cnx),
                                    Event(c, "return", None,
                                          Some([deleted |-> Val(w.arg) \in DOMAIN registry]))>>
           ELSE IF GetAllRaises(registry)
           THEN /\ registry' = registry
                /\ workers' = [workers EXCEPT ![t] = IdleWorker]
                /\ log' = log \o <<Executes(t, c, again),
                                    Event(c, "raise", None, GetAllError(registry))>>
           ELSE \E order \in RowOrders(registry) :
                    LET all_processes == GetAllProcessInfo(registry, order)
                    IN  /\ registry' = registry
                        /\ IF c.op = "get_all_process_info"
                           THEN /\ workers' = [workers EXCEPT ![t] = IdleWorker]
                                /\ log' = log \o <<Executes(t, c, again),
                                                    Event(c, "return", None,
                                                          Some([processes |-> all_processes]))>>
                           ELSE /\ workers' = [workers EXCEPT
                                                  ![t].pc = "delete",
                                                  ![t].seen = Some(all_processes)]
                                /\ log' = Append(log, Executes(t, c, again))
        /\ UNCHANGED <<context_vars, output_files, window, thread_local, connections, pc, call,
                       idx, ncalls>>

\* delete_inactive_processes in thread t after its get_all_process_info:
\* "return 0" without inactive records, else "DELETE ... WHERE hash IN (...)"
\* on the connection it got first
ThreadDeleteInactive(t) ==
    LET w == workers[t]
    IN  /\ w.pc = "delete"
        /\ registry' = DeleteInactiveProcesses(registry, Val(w.seen))
        /\ workers' = [workers EXCEPT ![t] = IdleWorker]
        /\ log' = log
                    \o (IF InactiveHashes(Val(w.seen)) = {} THEN <<>>
                        ELSE <<Executes(t, w.call, w.cnx)>>)
                    \o <<Event(w.call, "return", None,
                                Some([count |-> Cardinality(DOMAIN registry
                                                   \cap InactiveHashes(Val(w.seen)))]))>>
        /\ UNCHANGED <<context_vars, output_files, window, thread_local, connections, pc, call,
                       idx, ncalls>>

\* the output files the rows of the table name
OutputFilesOf(table) ==
    {PathOf(Val(table[key].output_file)) :
        key \in {k \in DOMAIN table : ~IsNone(table[k].output_file)}}

(***************************************************************************)
(* The process monitor: ProcessMonitorWindow with its controller.  Slots   *)
(* run in the GUI thread one at a time; the workers they start run in the  *)
(* thread pool in any order and answer with signals, which the GUI thread  *)
(* handles in the order they were emitted.                                 *)
(***************************************************************************)
\* the slots the user and the refresh timer trigger in one session
MaxSlots == 4

\* ProcessMonitorWindow after __init__: not loading, no rows, the refresh
\* timer not started, no worker in the pool and no signal on its way
InitialWindow ==
    [is_loading |-> FALSE, processes |-> <<>>, selected |-> {}, timer |-> FALSE,
     pool |-> <<>>, signals |-> <<>>, alive |-> TRUE]

\* _set_loading_state(loading=...)
SetLoadingState(w, loading) == [w EXCEPT !.is_loading = loading]

\* the value of an attribute of a ProcessInfo; None: the dataclass has no
\* such field and reading it raises AttributeError
GetAttr(proc, name) == IF name \in DOMAIN proc THEN Some(proc[name]) ELSE None

\* ProcessRefreshWorker(manager), started by slot n
ProcessRefreshWorker(n) == [kind |-> "refresh", process_hash |-> None, by |-> n]

\* CleanupWorker(manager, cleanup_type, process_hash), started by slot n
CleanupWorker(cleanup_type, process_hash, n) ==
    [kind |-> cleanup_type, process_hash |-> process_hash, by |-> n]

\* a signal of the controller on its way to the window
Signal(name, data, n) == [name |-> name, data |-> data, by |-> n]

\* ProcessMonitorController.refresh
ControllerRefresh(w, n) == [w EXCEPT !.pool = Append(@, ProcessRefreshWorker(n))]

\* ProcessMonitorWindow._refresh_data
RefreshData(w, n) == ControllerRefresh(SetLoadingState(w, TRUE), n)

\* ProcessRefreshWorker.run and CleanupWorker.run on the table they find: the
\* table they leave and the signal they emit
WorkerResults(worker, table) ==
    IF worker.kind = "single"
    THEN IF IsNone(worker.process_hash) \/ worker.process_hash = Some("")
         THEN {[table |-> table,
                signal |-> Signal("error", Some([msg |-> "No process hash provided"]),
                                  worker.by)]}
         ELSE {[table |-> DeleteProcessInfo(table, Val(worker.process_hash)),
                signal |-> Signal("cleanup_finished", Some([count |-> 1]), worker.by)]}
    ELSE IF GetAllRaises(table)
    THEN {[table |-> table,
           signal |-> Signal("error", Some([msg |-> Val(GetAllError(table)).type]),
                             worker.by)]}
    ELSE {LET all_processes == GetAllProcessInfo(table, order)
          IN  IF worker.kind = "refresh"
              THEN [table |-> table,
                    signal |-> Signal("processes_refreshed",
                                      Some([processes |-> all_processes]), worker.by)]
              ELSE [table |-> DeleteInactiveProcesses(table, all_processes),
                    signal |-> Signal("cleanup_finished",
                                      Some([count |->
                                               Cardinality(DOMAIN table
                                                   \cap InactiveHashes(all_processes))]),
                                      worker.by)] :
          order \in RowOrders(table)}

\* _on_processes_refreshed(processes): the hashes of the selected rows are
\* read, the rows replaced (which clears the selection), the rows whose hash
\* was selected are selected again and the loading state ends; error: the
\* exception that leaves the slot
OnProcessesRefreshed(w, processes) ==
    LET selected_rows == {w.processes[r] : r \in w.selected}
        selected_hashes == {Val(GetAttr(proc, "hash")) : proc \in selected_rows}
        updated == [w EXCEPT !.processes = processes, !.selected = {}]
        restored == {r \in DOMAIN processes :
                        Val(GetAttr(processes[r], "hash")) \in selected_hashes}
    IN  IF \E proc \in selected_rows : IsNone(GetAttr(proc, "hash"))
        THEN [window |-> w, error |-> Some(AttributeError)]
        ELSE IF \E r \in DOMAIN processes : IsNone(GetAttr(processes[r], "hash"))
        THEN [window |-> updated, error |-> Some(AttributeError)]
        ELSE [window |-> SetLoadingState([updated EXCEPT !.selected = restored], FALSE),
              error |-> None]

\* _on_cleanup_finished(deleted_processes)
OnCleanupFinished(w, n) == [window |-> RefreshData(w, n), error |-> None]

\* _on_error(error_msg)
OnError(w) == [window |-> SetLoadingState(w, FALSE), error |-> None]

\* an exception leaves a slot: the Qt binding prints it and the event loop
\* goes on, or the binding ends the application
AfterSlot(result) ==
    IF IsNone(result.error) THEN {result.window}
    ELSE {result.window, [result.window EXCEPT !.alive = FALSE]}

\* a slot of the window triggered by the user or the timer
SlotCall(op) == [op |-> op, n |-> ncalls + 1]

StartSlot ==
    /\ window.alive
    /\ ncalls < MaxSlots
    /\ ncalls' = ncalls + 1

\* what the slots and workers of the window leave alone
window_rest ==
    <<context_vars, output_files, thread_local, connections, workers, pc, call, idx>>

\* showEvent: the timer is started and the table refreshed; the window is
\* shown once in a session
ShowEvent ==
    LET c == SlotCall("showEvent")
    IN  /\ StartSlot
        /\ ~window.timer
        /\ window' = RefreshData([window EXCEPT !.timer = TRUE], c.n)
        /\ log' = log \o <<Event(c, "call", None, None), Event(c, "return", None, None)>>
        /\ UNCHANGED <<window_rest, registry>>

\* _refresh_timer.timeout: ProcessMonitorController.refresh
TimerRefresh ==
    LET c == SlotCall("refresh")
    IN  /\ StartSlot
        /\ window.timer
        /\ window' = ControllerRefresh(window, c.n)
        /\ log' = log \o <<Event(c, "call", None, None), Event(c, "return", None, None)>>
        /\ UNCHANGED <<window_rest, registry>>

\* the user selects a row of the tree view or clears the selection
SelectRow ==
    /\ window.alive
    /\ \E selected \in {{}} \cup {{r} : r \in DOMAIN window.processes} :
           /\ selected # window.selected
           /\ window' = [window EXCEPT !.selected = selected]
    /\ UNCHANGED <<window_rest, registry, ncalls, log>>

\* _clean_inactive_processes with the reply to its question; it returns at
\* once while the window is loading
CleanInactiveProcesses ==
    \E reply \in {"Yes", "No"} :
        LET c == SlotCall("_clean_inactive_processes")
            loading == SetLoadingState(window, TRUE)
        IN  /\ StartSlot
            /\ ~window.is_loading
            /\ window' = IF reply = "Yes"
                         THEN [loading EXCEPT
                                  !.pool = Append(@, CleanupWorker("inactive", None, c.n))]
                         ELSE window
            /\ log' = log \o <<Event(c, "call", None, Some([reply |-> reply])),
                               Event(c, "return", None, None)>>
            /\ UNCHANGED <<window_rest, registry>>

\* _delete_selected_process with the reply to its question; it returns at
\* once while the window is loading or no row is selected.  The call event
\* holds the record of the row and the table of that moment
DeleteSelectedProcess ==
    \E reply \in {"Yes", "No"}, row \in window.selected :
        LET c == SlotCall("_delete_selected_process")
            proc == window.processes[row]
            called == Event(c, "call", None,
                            Some([process |-> proc, reply |-> reply, table |-> registry]))
            loading == SetLoadingState(window, TRUE)
            process_hash == GetAttr(proc, "hash")
        IN  /\ StartSlot
            /\ ~window.is_loading
            /\ IF reply = "No"
               THEN /\ window' = window
                    /\ log' = log \o <<called, Event(c, "return", None, None)>>
               ELSE IF IsNone(process_hash)
               THEN /\ window' \in AfterSlot([window |-> loading,
                                              error |-> Some(AttributeError)])
                    /\ log' = log \o <<called, Event(c, "raise", None, Some(AttributeError))>>
               ELSE /\ window' = [loading EXCEPT
                                     !.pool = Append(@, CleanupWorker("single", process_hash,
                                                                      c.n))]
                    /\ log' = log \o <<called,
                                       Event(c, "start", None,
                                             Some([process_hash |-> process_hash])),
                                       Event(c, "return", None, None)>>
            /\ UNCHANGED <<window_rest, registry>>

\* a worker of the pool runs
RunWorker ==
    \E i \in DOMAIN window.pool :
        LET worker == window.pool[i]
            c == [op |-> IF worker.kind = "refresh" THEN "ProcessRefreshWorker.run"
                         ELSE "CleanupWorker.run",
                  n |-> worker.by]
        IN  /\ window.alive
            /\ \E result \in WorkerResults(worker, registry) :
                   /\ registry' = result.table
                   /\ window' = [window EXCEPT
                                    !.pool = SubSeq(@, 1, i - 1) \o SubSeq(@, i + 1, Len(@)),
                                    !.signals = Append(@, result.signal)]
                   /\ log' = Append(log, Event(c, "emit", None,
                                               Some([kind |-> worker.kind,
                                                     process_hash |-> worker.process_hash,
                                                     signal |-> result.signal.name])))
            /\ UNCHANGED <<window_rest, ncalls>>

\* the GUI thread handles the next signal
DeliverSignal ==
    LET signal == Head(window.signals)
        taken == [window EXCEPT !.signals = Tail(@)]
        result == IF signal.name = "processes_refreshed"
                  THEN OnProcessesRefreshed(taken, Val(signal.data).processes)
                  ELSE IF signal.name = "cleanup_finished"
                  THEN OnCleanupFinished(taken, signal.by)
                  ELSE OnError(taken)
        c == [op |-> "_on_" \o signal.name, n |-> signal.by]
    IN  /\ window.alive
        /\ window.signals # <<>>
        /\ window' \in AfterSlot(result)
        /\ log' = Append(log, IF IsNone(result.error) THEN Event(c, "return", None, None)
                              ELSE Event(c, "raise", None, result.error))
        /\ UNCHANGED <<window_rest, registry, ncalls>>

\* a new context on a table earlier sessions filled, their output files still
\* on disk, constructed with one of the source environments
InitContextWith(table, src_envs) ==
    /\ kwargs \in {InitialKwargs(src_env, os.environ) : src_env \in src_envs}
    /\ prelaunch_hooks = None
    /\ postlaunch_hooks = None
    /\ process = None
    /\ prelaunch_hooks_executed = FALSE
    /\ discoveries = 0
    /\ built = [pre |-> FALSE, post |-> FALSE]
    /\ instantiated = <<>>
    /\ pc = "idle"
    /\ call = NoCall
    /\ idx = 0
    /\ ncalls = 0
    /\ log = <<>>
    /\ registry = table
    /\ output_files = OutputFilesOf(table)
    /\ thread_local = [t \in Threads |-> None]
    /\ connections = <<>>
    /\ workers = [t \in Threads |-> IdleWorker]
    /\ window = InitialWindow

\* a new context constructed without "env" in its data
InitContextOn(table) == InitContextWith(table, {None})

\* a new context, the process_info table empty
InitContext == InitContextOn(<<>>)

\* the launch arguments of a context: the executable, then the arguments of
\* the application as one list
FoundExecutable == Some("maya")

\* launch_args of a new context: the executable, if there is one, then the
\* arguments of the application as one list
InitialLaunchArgs(exe) ==
    Container("list",
              (IF IsNone(exe) THEN <<>> ELSE <<Token(Val(exe))>>)
                  \o <<Container("list", <<Token("-file"), Token("a")>>)>>)

DefaultLaunchArgs == InitialLaunchArgs(FoundExecutable)

Init ==
    /\ application = MakeApplication("maya", "2024", "maya")
    /\ platform_system \in PlatformSystems
    /\ launch_type = "local"
    /\ executable = FoundExecutable
    /\ manager_class = "ApplicationManager"
    /\ os = QuietOs
    /\ launch_args = DefaultLaunchArgs
    /\ \E pre \in SeqsUpTo(LaunchClasses, MaxPreHooks),
          post \in SeqsUpTo(LaunchClasses, MaxPostHooks) :
           hook_classes = [pre |-> pre, post |-> post]
    /\ InitContext

Next ==
    \/ CallDiscover
    \/ CallRunPrelaunchHooks
    \/ CallLaunch
    \/ PreHookStart
    \/ PreHookEnd
    \/ PreHooksDone
    \/ RunProcess
    \/ PostHookStart
    \/ PostHookEnd
    \/ PostHooksDone

Spec == Init /\ [][Next]_vars

(***************************************************************************)
(* Discovery on its own: richer hook classes and launch contexts, the      *)
(* discovery calls and the environment-only use of a context               *)
(* (run_prelaunch_hooks without launch).                                   *)
(***************************************************************************)
\* hook classes that differ in order, in one filter, or are broken
DiscoveryClasses ==
    {DefaultHook,
     [DefaultHook EXCEPT !.order = Some(1)],
     [DefaultHook EXCEPT !.order = Some(2)],
     [DefaultHook EXCEPT !.order = Some(1), !.hosts = {"maya"}],
     [DefaultHook EXCEPT !.order = Some(2), !.validates = FALSE],
     [DefaultHook EXCEPT !.order = Some(1), !.order_type = "str"],
     [DefaultHook EXCEPT !.init_raises = TRUE],
     [DefaultHook EXCEPT !.order = Some(1), !.abstract = TRUE]}

\* hook classes with every combination of filter sets
FilterClasses ==
    {[DefaultHook EXCEPT !.platforms = p, !.hosts = h, !.app_groups = g,
                         !.app_names = n, !.launch_types = t] :
        p \in {{}, {"windows"}, {"WINDOWS", "darwin"}, {"linux"}},
        h \in {{}, {"maya"}, {"nuke"}},
        g \in {{}, {"maya"}, {"nuke"}},
        n \in {{}, {"maya/2024"}, {"2024"}, {"nuke/2024", "2025"}},
        t \in SUBSET LaunchTypes}

InitDiscovery ==
    /\ executable = FoundExecutable
    /\ manager_class = "ApplicationManager"
    /\ os = QuietOs
    /\ launch_args = DefaultLaunchArgs
    /\ \/ /\ application = MakeApplication("nuke", "2024", "nuke")
          /\ platform_system = "Linux"
          /\ launch_type = "local"
          /\ \E kind \in {"pre", "post"},
                classes \in SeqsUpTo(DiscoveryClasses, MaxClasses) :
                 hook_classes = [pre |-> IF kind = "pre" THEN classes ELSE <<DefaultHook>>,
                                 post |-> IF kind = "post" THEN classes ELSE <<DefaultHook>>]
       \/ /\ application \in Applications
          /\ platform_system \in PlatformSystems
          /\ launch_type \in LaunchTypes
          /\ \E kind \in {"pre", "post"}, cls \in FilterClasses :
                 hook_classes = [pre |-> IF kind = "pre" THEN <<cls>> ELSE <<>>,
                                 post |-> IF kind = "post" THEN <<cls>> ELSE <<>>]
    /\ InitContext

NextDiscovery ==
    \/ CallDiscover
    \/ CallRunPrelaunchHooks
    \/ PreHookStart
    \/ PreHookEnd
    \/ PreHooksDone

SpecDiscovery == InitDiscovery /\ [][NextDiscovery]_vars

(***************************************************************************)
(* Launches with nested launch arguments: a context without hooks whose    *)
(* launch_args is any structure of at most MaxNodes tokens and containers. *)
(***************************************************************************)
ArgTokens == {"a", "b"}

\* the sequences of values that hold n tokens and containers in all, and the
\* values of n tokens and containers
RECURSIVE ArgSeqs(_), ArgValues(_)
ArgSeqs(n) ==
    IF n = 0 THEN {<<>>}
    ELSE UNION {{<<v>> \o rest : v \in ArgValues(k), rest \in ArgSeqs(n - k)} :
                   k \in 1..n}

ArgValues(n) ==
    (IF n = 1 THEN {Token(t) : t \in ArgTokens} ELSE {})
        \cup {Container(tag, items) : tag \in {"list", "tuple"}, items \in ArgSeqs(n - 1)}
        \cup {Container("set", items) :
                  items \in {s \in ArgSeqs(n - 1) :
                                /\ s # <<>>
                                /\ \A i \in DOMAIN s : s[i].tag = "tok"
                                /\ \A i, j \in DOMAIN s : s[i] = s[j] => i = j}}

InitArgs ==
    /\ application = MakeApplication("maya", "2024", "maya")
    /\ platform_system = "Windows"
    /\ launch_type = "local"
    /\ hook_classes = [pre |-> <<>>, post |-> <<>>]
    /\ executable = FoundExecutable
    /\ manager_class = "ApplicationManager"
    /\ os = QuietOs
    /\ launch_args \in
           {Token("maya -file a")}
               \cup {Container("list", items) :
                        items \in UNION {ArgSeqs(n) : n \in 0..MaxNodes}}
    /\ InitContext

NextArgs ==
    \/ CallLaunch
    \/ PreHooksDone
    \/ RunProcess
    \/ PostHooksDone

SpecArgs == InitArgs /\ [][NextArgs]_vars

(***************************************************************************)
(* Launches with a source environment: the data of the context hold an     *)
(* "env" or none, os.environ holds QT_API or not, and a pre-launch hook    *)
(* may set a key of the launch environment.  The context has an executable *)
(* or none, as one that only computes the environment of an application.   *)
(***************************************************************************)
\* the environments of the launching process
Environs == {[PATH |-> "bin"], [PATH |-> "bin", QT_API |-> "pyside2"]}

\* the "env" of the data of a context: none, an empty one, and ones with and
\* without the ignored key
SourceEnvs ==
    {None, Some(<<>>), Some([PATH |-> "src"]),
     Some([PATH |-> "src", QT_API |-> "pyqt5"]), Some([QT_API |-> "pyqt5"])}

\* pre-launch hooks that set a key of the launch environment
EnvClasses ==
    {[DefaultHook EXCEPT !.sets_env = {"QT_API"}],
     [DefaultHook EXCEPT !.sets_env = {"AYON_APP_NAME"}]}

InitEnv ==
    /\ application = MakeApplication("maya", "2024", "maya")
    /\ platform_system \in {"Windows", "Linux"}
    /\ launch_type = "local"
    /\ executable \in {None, FoundExecutable}
    /\ manager_class = "ApplicationManager"
    /\ os \in {[QuietOs EXCEPT !.environ = environ] : environ \in Environs}
    /\ launch_args = InitialLaunchArgs(executable)
    /\ \E pre \in SeqsUpTo(EnvClasses, 1) : hook_classes = [pre |-> pre, post |-> <<>>]
    /\ InitContextWith(<<>>, SourceEnvs)

NextEnv ==
    \/ CallRunPrelaunchHooks
    \/ CallLaunch
    \/ PreHookStart
    \/ PreHookEnd
    \/ PreHooksDone
    \/ RunProcess
    \/ PostHooksDone

SpecEnv == InitEnv /\ [][NextEnv]_vars

(***************************************************************************)
(* Launches through ApplicationManager.launch(app_name).                   *)
(***************************************************************************)
InitManager ==
    /\ application \in Applications
    /\ platform_system \in {"Windows", "Linux"}
    /\ launch_type = "local"
    /\ hook_classes = [pre |-> <<DefaultHook>>, post |-> <<DefaultHook>>]
    /\ executable \in {None, FoundExecutable}
    /\ manager_class = "ApplicationManager"
    /\ os = QuietOs
    /\ launch_args = InitialLaunchArgs(executable)
    /\ InitContext

NextManager ==
    \/ CallManagerLaunch
    \/ PreHookStart
    \/ PreHookEnd
    \/ PreHooksDone
    \/ RunProcess
    \/ PostHookStart
    \/ PostHookEnd
    \/ PostHooksDone

SpecManager == InitManager /\ [][NextManager]_vars

(***************************************************************************)
(* Reading the history.                                                    *)
(***************************************************************************)
Raised(e) == ~IsNone(e.data)

EventsOfCall(n) == SelectSeq(log, LAMBDA e : e.call = n)

Only(events, ev) == SelectSeq(events, LAMBDA e : e.ev = ev)

HooksOf(events) == [k \in DOMAIN events |-> Val(events[k].hook)]

PhaseOf(ev) ==
    CASE ev = "call" -> 0
      [] ev \in {"pre_start", "pre_end"} -> 1
      [] ev \in {"spawn_start", "popen_ok", "store", "handshake", "spawn_end"} -> 2
      [] ev \in {"post_start", "post_end"} -> 3
      [] OTHER -> 4

ClassOf(hook) == hook_classes[hook.kind][hook.cls]

HookLists ==
    (IF IsNone(prelaunch_hooks) THEN {} ELSE {Val(prelaunch_hooks)})
        \cup (IF IsNone(postlaunch_hooks) THEN {} ELSE {Val(postlaunch_hooks)})

\* the records given to the registry methods: one with everything a launch
\* stores, and one each without PID, without output file and without start
\* time; args as a list holding a tuple or as a str
RegistryPids == {None, Some(101)}

RegistryArgs ==
    {Some(Token("maya -file a")),
     Some(Container("list", <<Token("maya"), Container("tuple", <<Token("-file")>>)>>))}

RegistryEnvs == {LaunchEnv}

RegistryOutputs == {None, Some(<<"out.txt">>)}

RegistryRecords(class) ==
    {ProcessInfoOf("maya/2024",
                   IF class = "ProcessManager" THEN Some(<<"usr", "bin", "maya">>) ELSE None,
                   args, env, Cwd, pid, output, start_time) :
        args \in RegistryArgs, env \in RegistryEnvs, pid \in RegistryPids,
        output \in RegistryOutputs, start_time \in {None} \cup {Some(t) : t \in StartTimes}}
        \ {info \in
              [name : {"maya/2024"}, executable : {None, Some(<<"usr", "bin", "maya">>)},
               args : RegistryArgs, env : RegistryEnvs, cwd : {Cwd}, pid : RegistryPids,
               active : {FALSE}, output : RegistryOutputs,
               start_time : {None} \cup {Some(t) : t \in StartTimes},
               created_at : {None}] :
                \/ Cardinality({f \in {"pid", "output", "start_time"} : IsNone(info[f])}) > 1
                \/ (info.args = Some(Token("maya -file a"))) # IsNone(info.start_time)}

\* the machines the registry is read on: without processes; with the process
\* of PID 101 created at the recorded time, with psutil or without, or two
\* seconds later (the PID was reused)
RegistryOs ==
    {QuietOs}
        \cup {[QuietOs EXCEPT !.procs = [pid \in {101} |->
                                            OsProcess(t, <<"usr", "bin", "maya">>, FALSE)]] :
                 t \in {10, 12}}
        \cup {[QuietOs EXCEPT !.procs = [pid \in {101} |->
                                            OsProcess(10, <<"usr", "bin", "maya">>, FALSE)],
                              !.psutil = FALSE]}

\* a record of an earlier session: a launched maya with an output file
StoredRecord(class, pid) ==
    ProcessInfoOf("maya/2024",
                  IF class = "ProcessManager" THEN Some(<<"usr", "bin", "maya">>) ELSE None,
                  Some(Container("list", <<Token("maya"), Token("-file")>>)),
                  LaunchEnv, Cwd, Some(pid),
                  Some(IF pid = 101 THEN <<"out.txt">> ELSE OutputFile), Some(10))

\* the tables process_handlers.db can hold when the manager is constructed:
\* none, or what earlier stores of the same class left, two rows in one
\* second or in two
StoredBefore ==
    LET one == StoreProcessInfo(<<>>, StoredRecord(manager_class, 101), 1)
    IN  {<<>>, one,
         StoreProcessInfo(one, StoredRecord(manager_class, 102), 1),
         StoreProcessInfo(one, StoredRecord(manager_class, 102), 2)}

\* the hashes the callers ask for
RegistryKeys ==
    {GetProcessInfoHash(info) :
        info \in RegistryRecords(manager_class)
                     \cup {StoredRecord(manager_class, pid) : pid \in {101, 102}}}

\* the sessions: nothing stored and nothing running; two records of two
\* seconds, neither process running; two records of one second, the process
\* of PID 101 running as recorded, on a machine with psutil and on one
\* without; one record, its PID now held by a process created two seconds
\* after the recorded one
RegistrySessions ==
    {s \in RegistryOs \X StoredBefore :
        LET rows == Cardinality(DOMAIN s[2])
            seconds == {s[2][key].created_at : key \in DOMAIN s[2]}
        IN  IF s[1].procs = <<>> THEN rows = 0 \/ Cardinality(seconds) = 2
            ELSE IF s[1].procs[101].create_time = 10
            THEN rows = 2 /\ Cardinality(seconds) = 1
            ELSE rows = 1}

\* a registry of either class on a table of that class, and a context on
\* Windows without hooks
InitRegistry ==
    /\ application = MakeApplication("maya", "2024", "maya")
    /\ platform_system = "Windows"
    /\ launch_type = "local"
    /\ executable = FoundExecutable
    /\ manager_class \in {"ApplicationManager", "ProcessManager"}
    /\ launch_args = DefaultLaunchArgs
    /\ hook_classes = [pre |-> <<>>, post |-> <<>>]
    /\ \E s \in RegistrySessions : os = s[1] /\ InitContextOn(s[2])

\* the launch path writes through ApplicationManager
LaunchOnRegistry ==
    /\ manager_class = "ApplicationManager"
    /\ (CallLaunch \/ PreHooksDone \/ RunProcess \/ PostHooksDone)

StoreOnRegistry == CallStoreProcessInfo(RegistryRecords(manager_class))

GetOnRegistry == CallGetProcessInfo(RegistryKeys)

DeleteOnRegistry == CallDeleteProcessInfo(RegistryKeys)

NextRegistry ==
    \/ StoreOnRegistry
    \/ GetOnRegistry
    \/ CallGetAllProcessInfo
    \/ DeleteOnRegistry
    \/ CallDeleteInactiveProcesses
    \/ LaunchOnRegistry

SpecRegistry == InitRegistry /\ [][NextRegistry]_vars

(***************************************************************************)
(* The shared store: launches through ApplicationManager, which store      *)
(* their records, and the process monitor, which lists them with its       *)
(* ProcessManager; the store does not exist at the start.                  *)
(***************************************************************************)
InitShared ==
    /\ application = MakeApplication("maya", "2024", "maya")
    /\ platform_system \in {"Windows", "Linux"}
    /\ launch_type = "local"
    /\ executable = FoundExecutable
    /\ manager_class = "ApplicationManager"
    /\ os = QuietOs
    /\ launch_args = DefaultLaunchArgs
    /\ hook_classes = [pre |-> <<>>, post |-> <<>>]
    /\ InitContext

NextShared ==
    \/ CallLaunch
    \/ PreHooksDone
    \/ RunProcess
    \/ PostHooksDone
    \/ CallMonitorGetAll

SpecShared == InitShared /\ [][NextShared]_vars

(***************************************************************************)
(* The identity key on its own: records of launches that differ in name,   *)
(* PID and start time are stored one after the other in an empty table.    *)
(***************************************************************************)
\* full names of applications whose variant is a number
KeyNames == {"nuke/1", "nuke/13"}

\* PIDs of their processes
KeyPids == {101, 3101}

\* the records of the launches, as the class holds them
KeyRecords(class) ==
    {ProcessInfoOf(name,
                   IF class = "ProcessManager" THEN Some(<<"usr", "bin", "nuke">>) ELSE None,
                   Some(Container("list", <<Token("nuke")>>)), LaunchEnv, Cwd,
                   Some(pid), Some(<<"out.txt">>), start_time) :
        name \in KeyNames, pid \in KeyPids, start_time \in TargetStartTimes}

InitKeys ==
    /\ application = MakeApplication("nuke", "13", "nuke")
    /\ platform_system = "Linux"
    /\ launch_type = "local"
    /\ executable = FoundExecutable
    /\ manager_class \in {"ApplicationManager", "ProcessManager"}
    /\ os = QuietOs
    /\ launch_args = DefaultLaunchArgs
    /\ hook_classes = [pre |-> <<>>, post |-> <<>>]
    /\ InitContext

NextKeys == CallStoreProcessInfo(KeyRecords(manager_class))

SpecKeys == InitKeys /\ [][NextKeys]_vars

(***************************************************************************)
(* The liveness verifier on its own: one call of _are_processes_running    *)
(* with a batch of at most MaxBatch triplets, on a machine of either       *)
(* platform, with or without psutil, /proc and a working tasklist or ps.   *)
(***************************************************************************)
\* the live processes: PID 101 is absent or any process, PID 102 is absent or
\* a maya created at 10
VerifierProcs ==
    LET first == {OsProcess(t, exe, denied) :
                     t \in {10, 12},
                     exe \in {<<"usr", "bin", "maya">>, <<"usr", "bin", "Maya">>,
                              <<"usr", "bin", "nuke">>},
                     denied \in BOOLEAN}
        second == {OsProcess(10, <<"usr", "bin", "maya">>, FALSE)}
    IN  {<<>>}
            \cup {[pid \in {101} |-> p] : p \in first}
            \cup {[pid \in {102} |-> q] : q \in second}
            \cup {[pid \in {101, 102} |-> IF pid = 101 THEN p ELSE q] :
                     p \in first, q \in second}

\* platform, psutil, /proc, utility: one machine for each path through the
\* tiers
VerifierMachines ==
    {<<"Linux", TRUE, TRUE, "ok">>, <<"Windows", TRUE, TRUE, "ok">>,
     <<"Windows", FALSE, TRUE, "ok">>, <<"Windows", FALSE, TRUE, "fails">>,
     <<"Windows", FALSE, TRUE, "missing">>,
     <<"Linux", FALSE, TRUE, "ok">>, <<"Linux", FALSE, FALSE, "ok">>,
     <<"Linux", FALSE, FALSE, "fails">>, <<"Linux", FALSE, FALSE, "missing">>}

\* the triplets of a class: ApplicationManager expects the base name of the
\* first argument, ProcessManager the path of the executable
VerifierTriplets(class) ==
    {Triplet(pid, exe, start) :
        pid \in {101, 102},
        exe \in {None, Some(IF class = "ApplicationManager" THEN "maya" ELSE "usr/bin/maya")},
        start \in {None, Some(10), Some(11)}}

VerifierBatches == SeqsUpTo(VerifierTriplets(manager_class), MaxBatch)

InitVerifier ==
    /\ application = MakeApplication("maya", "2024", "maya")
    /\ launch_type = "local"
    /\ executable = FoundExecutable
    /\ manager_class \in {"ApplicationManager", "ProcessManager"}
    /\ \E machine \in VerifierMachines, procs \in VerifierProcs :
           /\ platform_system = machine[1]
           /\ os = [procs |-> procs, psutil |-> machine[2], proc_fs |-> machine[3],
                    utility |-> machine[4], environ |-> QuietOs.environ]
    /\ launch_args = DefaultLaunchArgs
    /\ hook_classes = [pre |-> <<>>, post |-> <<>>]
    /\ InitContext

NextVerifier == CallAreProcessesRunning(VerifierBatches)

SpecVerifier == InitVerifier /\ [][NextVerifier]_vars

(***************************************************************************)
(* Specification SpecThreads: the threads of the process monitor call the  *)
(* registry methods of one ProcessManager, interleaved.                    *)
(***************************************************************************)
\* the hashes the cleanup workers are given: of a stored record
ThreadKeys == {GetProcessInfoHash(StoredRecord("ProcessManager", 101))}

\* a ProcessManager on a table of two records whose processes have exited
InitThreads ==
    /\ application = MakeApplication("maya", "2024", "maya")
    /\ platform_system = "Windows"
    /\ launch_type = "local"
    /\ executable = FoundExecutable
    /\ manager_class = "ProcessManager"
    /\ launch_args = DefaultLaunchArgs
    /\ hook_classes = [pre |-> <<>>, post |-> <<>>]
    /\ \E s \in RegistrySessions :
           /\ Cardinality(DOMAIN s[2]) = 2
           /\ s[1] = QuietOs
           /\ os = s[1]
           /\ InitContextOn(s[2])

NextThreads ==
    \E t \in Threads :
        \/ ThreadCall(t, ThreadKeys)
        \/ ThreadGetConnection(t)
        \/ ThreadKeepConnection(t)
        \/ ThreadExecute(t)
        \/ ThreadDeleteInactive(t)

SpecThreads == InitThreads /\ [][NextThreads]_vars

(***************************************************************************)
(* Specification SpecWindow: one session of the process monitor on a table *)
(* earlier stores of ProcessManager filled, while launches of other        *)
(* processes store their records.                                          *)
(***************************************************************************)
\* the records stored while the monitor is open: of a launch with an output
\* file and of one without
WindowRecords ==
    {StoredRecord("ProcessManager", 102),
     [StoredRecord("ProcessManager", 102) EXCEPT !.output = None]}

InitWindow ==
    /\ application = MakeApplication("maya", "2024", "maya")
    /\ platform_system = "Windows"
    /\ launch_type = "local"
    /\ executable = FoundExecutable
    /\ manager_class = "ProcessManager"
    /\ os = QuietOs
    /\ launch_args = DefaultLaunchArgs
    /\ hook_classes = [pre |-> <<>>, post |-> <<>>]
    /\ \E table \in StoredBefore : InitContextOn(table)

NextWindow ==
    \/ ShowEvent
    \/ TimerRefresh
    \/ SelectRow
    \/ CleanInactiveProcesses
    \/ DeleteSelectedProcess
    \/ RunWorker
    \/ DeliverSignal
    \/ CallStoreProcessInfo(WindowRecords)

SpecWindow == InitWindow /\ [][NextWindow]_vars

(***************************************************************************)
(* Claims about the launch pipeline (specification Spec).                  *)
(***************************************************************************)
\* C1: over any sequence of launch() calls on one context, whatever each
\* call's outcome, the OS spawn call succeeds at most once in total.
C1_SpawnSucceedsAtMostOnce ==
    Cardinality({i \in DOMAIN log : log[i].ev = "popen_ok"}) <= 1

\* C2: when a pre-launch hook raises during launch(), that same exception
\* leaves launch() and nothing else happens in the call: no later pre-hook
\* executes, nothing is spawned, no post-hook executes, no record is stored,
\* and the context holds no process.
C2_PreHookFailureAbortsLaunch ==
    \A i \in DOMAIN log :
        (log[i].ev = "pre_end" /\ log[i].op = "launch" /\ Raised(log[i])) =>
            /\ i + 1 \in DOMAIN log
            /\ log[i + 1].ev = "raise"
            /\ log[i + 1].call = log[i].call
            /\ log[i + 1].data = Some(HookError(Val(log[i].hook)))
            /\ \A j \in DOMAIN log : (j > i + 1) => log[j].call # log[i].call
            /\ \A j \in DOMAIN log :
                   log[j].call = log[i].call =>
                       log[j].ev \notin {"spawn_start", "popen_ok", "store",
                                         "spawn_end", "post_start", "post_end"}
            /\ (i + 1 = Len(log) => pc = "idle" /\ IsNone(process))

\* C2 witness: launch() was left by the exception of a pre-launch hook that
\* is not the last of the pipeline.
C2_Witness ==
    /\ pc = "idle"
    /\ call.op = "launch"
    /\ Len(log) >= 2
    /\ log[Len(log)].ev = "raise"
    /\ log[Len(log) - 1].ev = "pre_end"
    /\ Raised(log[Len(log) - 1])
    /\ Val(log[Len(log) - 1].hook) # Val(prelaunch_hooks)[Len(Val(prelaunch_hooks))]

\* C3: a launch() whose spawner returned a process handle executes every
\* post-launch hook exactly once in pipeline order, whichever of them raise,
\* is not left by an exception, and returns that handle.
C3_PostHooksIsolated ==
    LET events == EventsOfCall(call.n)
        spawned == Only(events, "spawn_end")
    IN  (pc = "idle" /\ call.op = "launch" /\ spawned # <<>>) =>
            /\ HooksOf(Only(events, "post_start")) = Val(postlaunch_hooks)
            /\ HooksOf(Only(events, "post_end")) = Val(postlaunch_hooks)
            /\ Only(events, "raise") = <<>>
            /\ events[Len(events)].ev = "return"
            /\ events[Len(events)].data = spawned[1].data
            /\ process = spawned[1].data

\* C3 witness: a finished launch() with two post-launch hooks, the first of
\* which raised.
C3_Witness ==
    LET posts == Only(EventsOfCall(call.n), "post_end")
    IN  /\ pc = "idle"
        /\ call.op = "launch"
        /\ Len(posts) = 2
        /\ Raised(posts[1])
        /\ log[Len(log)].ev = "return"

\* C4: in every launch() the phases follow each other in the order pre-hooks,
\* spawn, post-hooks: the spawn starts only when the pre-hooks have run, a
\* post-hook starts only after the spawner returned, and a hook that started
\* ends before anything else happens.
C4_PhasesInOrder ==
    /\ \A i, j \in DOMAIN log :
           (i < j /\ log[i].call = log[j].call) =>
               PhaseOf(log[i].ev) <= PhaseOf(log[j].ev)
    /\ \A i \in DOMAIN log :
           /\ log[i].ev \in {"pre_start", "post_start"} =>
                  IF i = Len(log)
                  THEN pc = (IF log[i].ev = "pre_start" THEN "in_pre" ELSE "in_post")
                  ELSE /\ log[i + 1].ev = (IF log[i].ev = "pre_start" THEN "pre_end"
                                           ELSE "post_end")
                       /\ log[i + 1].hook = log[i].hook
                       /\ log[i + 1].call = log[i].call
           /\ log[i].ev = "post_start" =>
                  \E k \in 1..(i - 1) :
                      log[k].ev = "spawn_end" /\ log[k].call = log[i].call
    /\ pc \in {"in_pre", "in_post"} =>
           log[Len(log)].ev = (IF pc = "in_pre" THEN "pre_start" ELSE "post_start")
    /\ pc = "spawn" => prelaunch_hooks_executed
    /\ pc \in {"post", "in_post"} => (prelaunch_hooks_executed /\ ~IsNone(process))

\* C4 witness: a finished launch() that ran a pre-launch hook, spawned and
\* ran a post-launch hook.
C4_Witness ==
    LET events == EventsOfCall(call.n)
    IN  /\ pc = "idle"
        /\ call.op = "launch"
        /\ Only(events, "pre_end") # <<>>
        /\ Only(events, "spawn_end") # <<>>
        /\ Only(events, "post_end") # <<>>
        /\ log[Len(log)].ev = "return"

\* C5: over the lifetime of a context, execute() of each pre-launch hook is
\* invoked at most once.
C5_PreHookExecutedAtMostOnce ==
    \A i, j \in DOMAIN log :
        (i < j /\ log[i].ev = "pre_start" /\ log[j].ev = "pre_start") =>
            log[i].hook # log[j].hook

\* C6: once execute() of a pre-launch hook has raised on a context, no later
\* call executes a hook or spawns a process.
C6_FailedPreLaunchIsTerminal ==
    \A i, j \in DOMAIN log :
        (i < j /\ log[i].ev = "pre_end" /\ Raised(log[i])) =>
            log[j].ev \notin {"pre_start", "post_start", "popen_ok"}

\* the launch() calls that have ended
EndedLaunches ==
    {n \in 1..ncalls :
        LET events == EventsOfCall(n)
        IN  /\ events # <<>>
            /\ events[1].op = "launch"
            /\ events[Len(events)].ev \in {"return", "raise"}}

\* the value a call returned: None when it returned None or was left by an
\* exception
Returned(n) ==
    LET events == EventsOfCall(n)
    IN  IF events[Len(events)].ev = "return" THEN events[Len(events)].data ELSE None

\* the records a call stored
StoredBy(n) ==
    LET stores == Only(EventsOfCall(n), "store")
    IN  [k \in DOMAIN stores |-> Val(stores[k].data)]

\* C14: every launch() that returns a process handle has stored exactly one
\* record, with a PID and the name of the launched application, whatever the
\* spawn path.
C14_ReturnedLaunchStoredOneRecord ==
    \A n \in EndedLaunches :
        ~IsNone(Returned(n)) =>
            /\ Len(StoredBy(n)) = 1
            /\ ~IsNone(StoredBy(n)[1].pid)
            /\ StoredBy(n)[1].name = application.full_name

\* C15 as stated: the handle a launch() returns is the handle of the launched
\* target process, and its PID is the PID of the record the launch stored.
C15_HandleIsStoredTarget ==
    \A n \in EndedLaunches :
        ~IsNone(Returned(n)) =>
            /\ Val(Returned(n)).role = "target"
            /\ \A k \in DOMAIN StoredBy(n) :
                   StoredBy(n)[k].pid = Some(Val(Returned(n)).pid)

\* a launch() call made when the context already held a process
LaunchedAgain(n) ==
    \E m \in EndedLaunches : m < n /\ ~IsNone(Returned(m))

\* C15 amended: a launch() that returns a handle returns the handle of the
\* process the spawner created itself.  On Windows and macOS that is the
\* target process, and the PID of the record the launch stored is its PID;
\* through the Linux intermediary it is the intermediary, and the PID of a
\* stored record is the one the intermediary reported for the target, not
\* the PID of the handle.  A launch() on a context that already holds a
\* process does nothing and returns None.
C15_HandleIsSpawnedProcess ==
    \A n \in EndedLaunches :
        LET events == EventsOfCall(n)
            popen == Only(events, "popen_ok")
            handle == Val(Returned(n))
        IN  /\ ~IsNone(Returned(n)) =>
                   /\ Len(popen) = 1
                   /\ popen[1].data = Returned(n)
                   /\ process = Returned(n)
                   /\ Lower(platform_system) \in {"windows", "darwin"} =>
                          /\ handle.role = "target"
                          /\ Len(StoredBy(n)) = 1
                          /\ StoredBy(n)[1].pid = Some(handle.pid)
                   /\ handle.role = "intermediary" =>
                          \A k \in DOMAIN StoredBy(n) :
                              StoredBy(n)[k].pid # Some(handle.pid)
            /\ LaunchedAgain(n) =>
                   /\ Len(events) = 2
                   /\ events[1].ev = "call"
                   /\ events[2].ev = "return"
                   /\ IsNone(events[2].data)

\* C15 witness: a launch through the intermediary stored the record of the
\* target and returned, and a second launch() on the context has ended.
C15_Witness ==
    \E n, m \in EndedLaunches :
        /\ n < m
        /\ ~IsNone(Returned(n))
        /\ Val(Returned(n)).role = "intermediary"
        /\ Len(StoredBy(n)) = 1

\* C16: when the OS spawn call itself fails, the error leaves launch(): no
\* record is written, no post-launch hook executes and the context holds no
\* process.
C16_SpawnFailurePropagates ==
    \A i \in DOMAIN log :
        (/\ log[i].ev = "spawn_start"
         /\ i < Len(log)
         /\ log[i + 1].ev # "popen_ok") =>
            LET e == IF log[i + 1].ev = "handshake" THEN i + 2 ELSE i + 1
            IN  /\ log[e].ev = "raise"
                /\ log[e].call = log[i].call
                /\ log[e].data = Some(OSError)
                /\ \A j \in DOMAIN log :
                       log[j].call = log[i].call =>
                           log[j].ev \notin {"store", "post_start", "post_end", "return"}
                /\ \A j \in DOMAIN log : j > e => log[j].call # log[i].call
                /\ (e = Len(log)) => (pc = "idle" /\ IsNone(process))

\* C16 witness: launch() ran a pre-launch hook, the spawn failed and the call
\* was left by the error, on a context with a post-launch hook.
C16_Witness ==
    /\ pc = "idle"
    /\ Len(log) >= 2
    /\ log[Len(log)].ev = "raise"
    /\ log[Len(log) - 1].ev = "spawn_start"
    /\ Only(EventsOfCall(call.n), "pre_end") # <<>>
    /\ Val(postlaunch_hooks) # <<>>

\* C18: when store_process_info fails after the OS process was created,
\* launch() is not left by that error: the context holds the process, the
\* post-launch hooks run and the handle is returned.
C18_StoreFailureNotFatal ==
    \A n \in EndedLaunches :
        LET events == EventsOfCall(n)
            popen == Only(events, "popen_ok")
        IN  (/\ popen # <<>>
             /\ \A e \in Range(events) :
                    e.ev = "raise" => e.data = Some(StorageError)) =>
                /\ Only(events, "raise") = <<>>
                /\ Returned(n) = popen[1].data
                /\ HooksOf(Only(events, "post_end")) = Val(postlaunch_hooks)
                /\ ~IsNone(process)

(***************************************************************************)
(* Claims about hook discovery (specification SpecDiscovery).              *)
(***************************************************************************)
ListOf(kind) == IF kind = "pre" THEN prelaunch_hooks ELSE postlaunch_hooks

\* the list of a kind holds what the latest discovery assigned to it
ListBuilt(kind) == built[kind]

InList(kind, i) ==
    /\ ~IsNone(ListOf(kind))
    /\ \E h \in Range(Val(ListOf(kind))) : h.kind = kind /\ h.cls = i

\* a class that can be instantiated and whose own validation passes
Concrete(cls) == ~cls.abstract /\ ~cls.init_raises /\ cls.validates

\* the platform, host, application-group and launch-type filters of a class
\* are each empty or hold the value of the context
DimensionsAllow(cls) ==
    /\ cls.platforms # {} =>
           \E p \in cls.platforms : Lower(p) = Lower(platform_system)
    /\ cls.hosts # {} => application.host_name \in cls.hosts
    /\ cls.app_groups # {} => application.group \in cls.app_groups
    /\ cls.launch_types # {} => launch_type \in cls.launch_types

\* position of two hooks in a list: declared orders ascending, ties and
\* hooks without order in scan order, hooks without order last
ComesBefore(a, b) ==
    IF ~IsNone(a.order) /\ ~IsNone(b.order)
    THEN \/ Val(a.order) < Val(b.order)
         \/ Val(a.order) = Val(b.order) /\ a.cls < b.cls
    ELSE IF IsNone(a.order) /\ IsNone(b.order)
    THEN a.cls < b.cls
    ELSE ~IsNone(a.order)

\* C7: each of prelaunch_hooks and postlaunch_hooks holds the runnable hooks,
\* those with a declared order first, ascending, ties in discovery order, then
\* those without order in discovery order; pre-launch hooks execute in the
\* order of their list.
C7_HooksInDeclaredOrder ==
    /\ \A kind \in {"pre", "post"} :
           ListBuilt(kind) =>
               LET hooks == Val(ListOf(kind))
                   classes == hook_classes[kind]
               IN  /\ \A i, j \in DOMAIN hooks :
                          i < j => ComesBefore(hooks[i], hooks[j])
                   /\ \A i \in DOMAIN hooks :
                          /\ hooks[i].kind = kind
                          /\ hooks[i].order = classes[hooks[i].cls].order
                   /\ {hooks[i].cls : i \in DOMAIN hooks} =
                          {n \in DOMAIN classes :
                              KeepsHook(classes[n], application, platform_system,
                                        launch_type)}
    /\ LET starts == Only(EventsOfCall(call.n), "pre_start")
       IN  \A k \in DOMAIN starts :
               /\ k <= Len(Val(prelaunch_hooks))
               /\ Val(starts[k].hook) = Val(prelaunch_hooks)[k]

\* C7 witness: three pre-launch hooks were executed; the first two declare
\* the same order, the third declares none and was discovered before the
\* second.
C7_Witness ==
    /\ ~IsNone(prelaunch_hooks)
    /\ LET hooks == Val(prelaunch_hooks)
       IN  /\ Len(hooks) = 3
           /\ ~IsNone(hooks[1].order)
           /\ hooks[1].order = hooks[2].order
           /\ IsNone(hooks[3].order)
           /\ hooks[3].cls < hooks[2].cls
    /\ Len(Only(EventsOfCall(call.n), "pre_end")) = 3

\* C8 as stated: the constructor of a hook class whose class-level filters
\* reject the context is never called.
C8_RejectedNeverInstantiated ==
    \A k \in DOMAIN instantiated :
        ClassValidation(hook_classes[instantiated[k].kind][instantiated[k].cls],
                        application, platform_system, launch_type)

\* C8 amended: a hook class whose class-level filters reject the context is
\* never runnable: a discovery that builds the list of its kind calls its
\* constructor, every instance gets is_valid False without validate() being
\* called, and no instance of it is in a hook list or is executed.
C8_RejectedNeverRunnable ==
    \A kind \in {"pre", "post"} :
        \A i \in DOMAIN hook_classes[kind] :
            LET cls == hook_classes[kind][i]
                calls == {k \in DOMAIN instantiated :
                             instantiated[k].kind = kind /\ instantiated[k].cls = i}
            IN  ~ClassValidation(cls, application, platform_system, launch_type) =>
                    /\ (~cls.abstract /\ ListBuilt(kind)) => calls # {}
                    /\ Cardinality(calls) <= discoveries
                    /\ \A k \in calls :
                           /\ ~instantiated[k].is_valid
                           /\ ~instantiated[k].validate_called
                    /\ ~InList(kind, i)
                    /\ \A e \in Range(log) :
                           e.ev = "pre_start" =>
                               ~(Val(e.hook).kind = kind /\ Val(e.hook).cls = i)

\* C8 witness: a discovery constructed a hook of a class that the filters
\* reject and that would otherwise be runnable.
C8_Witness ==
    \E k \in DOMAIN instantiated :
        LET cls == hook_classes[instantiated[k].kind][instantiated[k].cls]
        IN  /\ ~ClassValidation(cls, application, platform_system, launch_type)
            /\ Concrete(cls)
            /\ ~IsNone(prelaunch_hooks)

\* C9: no hook in prelaunch_hooks or postlaunch_hooks has a non-empty
\* platforms, hosts, app_groups or launch_types set that lacks the value of
\* the context (the platform compared case-insensitively), and a class whose
\* four sets are each empty or hold the value is not excluded by them.
C9_FiltersAreAllowLists ==
    /\ \A hooks \in HookLists :
           \A h \in Range(hooks) : DimensionsAllow(ClassOf(h))
    /\ \A kind \in {"pre", "post"} :
           ListBuilt(kind) =>
               \A i \in DOMAIN hook_classes[kind] :
                   LET cls == hook_classes[kind][i]
                   IN  (Concrete(cls) /\ cls.app_names = {} /\ DimensionsAllow(cls))
                           => InList(kind, i)

\* C9 witness: a hook is in a list whose platforms set holds the platform in
\* another letter case only and whose hosts, app_groups and launch_types
\* sets are not empty.
C9_Witness ==
    \E hooks \in HookLists :
        \E h \in Range(hooks) :
            LET cls == ClassOf(h)
            IN  /\ cls.platforms # {}
                /\ platform_system \notin cls.platforms
                /\ Lower(platform_system) \notin cls.platforms
                /\ cls.hosts # {}
                /\ cls.app_groups # {}
                /\ cls.launch_types # {}

\* C10: a hook class with a non-empty app_names set, its other filters being
\* satisfied, is runnable if and only if the full name of the launched
\* application (what the hook's app_name reports) is in app_names.
C10_AppNamesMatchFullName ==
    \A kind \in {"pre", "post"} :
        ListBuilt(kind) =>
            \A i \in DOMAIN hook_classes[kind] :
                LET cls == hook_classes[kind][i]
                IN  (cls.app_names # {} /\ Concrete(cls) /\ DimensionsAllow(cls)) =>
                        (InList(kind, i) <=> HookAppName(application) \in cls.app_names)

\* a class that cannot give a runnable hook: its constructor raises, its
\* validate() fails, or it is still abstract
Broken(cls) == cls.init_raises \/ ~cls.validates \/ cls.abstract

\* C11: discover_launch_hooks is never left by an exception that a hook class
\* caused; after a discovery no broken class is in a list and every other
\* class that the filters allow is in the list of its kind.
C11_DiscoveryIsolatesBrokenHooks ==
    /\ \A e \in Range(log) : ~(e.ev = "raise" /\ e.data = Some(TypeError))
    /\ discoveries > 0 =>
           \A kind \in {"pre", "post"} :
               \A i \in DOMAIN hook_classes[kind] :
                   LET cls == hook_classes[kind][i]
                   IN  /\ Broken(cls) => ~InList(kind, i)
                       /\ (~Broken(cls) /\ cls.app_names = {} /\ DimensionsAllow(cls))
                              => InList(kind, i)

\* a step that is a discover_launch_hooks(force) call made from outside
DiscoverStep(force) ==
    /\ ncalls' = ncalls + 1
    /\ call'.op = "discover_launch_hooks"
    /\ log'[Len(log) + 1].data = Some([force |-> force])

\* C12: on a context that holds a hook list, discover_launch_hooks() without
\* force calls no hook constructor and leaves both lists as they are; on a
\* context that holds both lists, a call with force=True returns with both
\* lists rebuilt by a new scan, and neither list holds an instance of an
\* earlier discovery.
C12_RepeatedDiscovery ==
    [][/\ (DiscoverStep(FALSE) /\ (~IsNone(prelaunch_hooks) \/ ~IsNone(postlaunch_hooks))) =>
                  /\ instantiated' = instantiated
                  /\ prelaunch_hooks' = prelaunch_hooks
                  /\ postlaunch_hooks' = postlaunch_hooks
       /\ (DiscoverStep(TRUE) /\ ~IsNone(prelaunch_hooks) /\ ~IsNone(postlaunch_hooks)) =>
                  /\ log'[Len(log')].ev = "return"
                  /\ prelaunch_hooks' =
                         Some(OrderedHooks("pre", hook_classes.pre, discoveries + 1,
                                           application, platform_system, launch_type))
                  /\ postlaunch_hooks' =
                         Some(OrderedHooks("post", hook_classes.post, discoveries + 1,
                                           application, platform_system, launch_type))
                  /\ \A h \in Range(Val(prelaunch_hooks')) \cup Range(Val(postlaunch_hooks')) :
                         h.gen > discoveries]_vars

\* C12 witness: a forced discovery on a discovered context has returned and
\* the list of pre-launch hooks holds instances of the second scan.
C12_Witness ==
    /\ pc = "idle"
    /\ call.op = "discover_launch_hooks"
    /\ call.n = 2
    /\ Only(EventsOfCall(2), "call")[1].data = Some([force |-> TRUE])
    /\ discoveries = 2
    /\ Val(prelaunch_hooks) # <<>>
    /\ \A h \in Range(Val(prelaunch_hooks)) : h.gen = 2

(***************************************************************************)
(* Claims about the launch arguments (specification SpecArgs).             *)
(***************************************************************************)
\* the tokens of a sequence of values, depth first, left to right
RECURSIVE DepthFirstTokens(_)
DepthFirstTokens(values) ==
    IF values = <<>> THEN <<>>
    ELSE (IF Head(values).tag = "tok" THEN <<Head(values)>>
          ELSE DepthFirstTokens(Head(values).items))
             \o DepthFirstTokens(Tail(values))

\* the launch arguments a spawn was given and the ones it passed on
SpawnArgs == {Val(e.data) : e \in {x \in Range(log) : x.ev = "spawn_start"}}

\* C13: the arguments launch() hands to the spawner are the tokens of
\* launch_args in depth-first left-to-right order, for any nesting: no list,
\* tuple or set is left, empty containers add nothing, a flat list stays
\* token for token as it is, and self.launch_args holds what was handed over.
C13_LaunchArgsFlattened ==
    /\ \A d \in SpawnArgs :
           d.given.tag # "tok" =>
               /\ d.passed = Container("list", DepthFirstTokens(d.given.items))
               /\ \A i \in DOMAIN d.passed.items : d.passed.items[i].tag = "tok"
               /\ (\A i \in DOMAIN d.given.items : d.given.items[i].tag = "tok")
                      => d.passed.items = d.given.items
    /\ (pc \in {"post", "in_post"} \/ ~IsNone(process)) =>
           \E d \in SpawnArgs : launch_args = d.passed

\* C13 witness: a launch was given arguments with a token in a container
\* inside a container, next to an empty container, and has returned.
C13_Witness ==
    /\ pc = "idle"
    /\ ~IsNone(process)
    /\ \E d \in SpawnArgs :
           /\ d.given.tag # "tok"
           /\ \E i, j \in DOMAIN d.given.items :
                  /\ IsContainer(d.given.items[i])
                  /\ \E k \in DOMAIN d.given.items[i].items :
                         /\ IsContainer(d.given.items[i].items[k])
                         /\ d.given.items[i].items[k].items # <<>>
                  /\ IsContainer(d.given.items[j])
                  /\ d.given.items[j].items = <<>>
           /\ Len(d.passed.items) = 1

(***************************************************************************)
(* Claims about ApplicationManager.launch (specification SpecManager).     *)
(***************************************************************************)
\* the context was not used: no hook was discovered, instantiated or
\* executed, nothing was spawned and nothing was stored
ContextUntouched ==
    /\ IsNone(prelaunch_hooks)
    /\ IsNone(postlaunch_hooks)
    /\ discoveries = 0
    /\ instantiated = <<>>
    /\ IsNone(process)
    /\ registry = <<>>
    /\ \A e \in Range(log) : e.ev \in {"call", "raise"}

\* C17: ApplicationManager.launch(app_name) raises ApplicationNotFound for an
\* unknown app_name and ApplicationExecutableNotFound for an application
\* without executable, in both cases before any hook is discovered,
\* instantiated or executed and before any spawn or registry write.
C17_ConfigurationErrorsFailFast ==
    \A i \in DOMAIN log :
        (log[i].ev = "call" /\ log[i].op = "ApplicationManager.launch") =>
            LET app_name == Val(log[i].data).app_name
            IN  /\ app_name \notin {app.full_name : app \in Applications} =>
                       /\ log = <<log[i], Event(call, "raise", None, Some(ApplicationNotFound))>>
                       /\ ContextUntouched
                /\ (app_name = application.full_name /\ IsNone(executable)) =>
                       /\ log = <<log[i], Event(call, "raise", None,
                                                Some(ApplicationExecutableNotFound))>>
                       /\ ContextUntouched

\* C17 witness: the launch of a known application without executable was
\* refused.
C17_Witness ==
    /\ pc = "idle"
    /\ Len(log) = 2
    /\ log[2].ev = "raise"
    /\ log[2].data = Some(ApplicationExecutableNotFound)
    /\ hook_classes.pre # <<>>

(***************************************************************************)
(* Claims about the process registry (specification SpecRegistry).         *)
(***************************************************************************)
\* the step is a call store_process_info(info)
StoreStep(info) ==
    /\ Len(log') = Len(log) + 2
    /\ log'[Len(log) + 1].op = "store_process_info"
    /\ log'[Len(log) + 1].data = Some(info)

\* the calls of an operation in the history: their entry events
CallsOf(op) == SelectSeq(log, LAMBDA e : e.ev = "call" /\ e.op = op)

RowsHavePid == \A k \in DOMAIN registry : ~IsNone(registry[k].pid)

\* C19: after any sequence of store, delete, delete-inactive operations and
\* launches every row of the registry has a non-null PID, and
\* store_process_info of a record whose PID is None leaves the table as it was.
C19_NoRowWithoutPid ==
    /\ []RowsHavePid
    /\ [][\A info \in RegistryRecords(manager_class) :
              (StoreStep(info) /\ IsNone(info.pid)) => registry' = registry]_vars

\* a record without PID was given to store_process_info while the table held a row
C19_Witness ==
    /\ registry # <<>>
    /\ \E k \in DOMAIN CallsOf("store_process_info") :
           IsNone(Val(CallsOf("store_process_info")[k].data).pid)

\* an argument structure after json.dumps and json.loads: every tuple is a list
RECURSIVE TuplesAsLists(_)
TuplesAsLists(value) ==
    IF value.tag = "tok" THEN value
    ELSE Container("list", [i \in DOMAIN value.items |-> TuplesAsLists(value.items[i])])

\* the record the round trip is to give back
RoundTripped(info) ==
    [info EXCEPT !.args = IF IsNone(@) THEN None ELSE Some(TuplesAsLists(Val(@)))]

EntriesOf(op) == {k \in DOMAIN log : log[k].ev = "call" /\ log[k].op = op}

\* the list is ordered by creation time descending
NewestFirst(processes) ==
    \A i, j \in DOMAIN processes :
        i < j => Val(processes[i].created_at) >= Val(processes[j].created_at)

\* the list holds the record of every row of the table once, and nothing else
OneRecordPerRow(processes, table) ==
    /\ Len(processes) = Cardinality(DOMAIN table)
    /\ \A key \in DOMAIN table :
           \E i \in DOMAIN processes :
               /\ GetProcessInfoHash(processes[i]) = key
               /\ processes[i].name = table[key].name
               /\ processes[i].pid = table[key].pid
               /\ processes[i].start_time = table[key].start_time
               /\ processes[i].created_at = Some(table[key].created_at)

\* C21: ProcessManager.get_all_process_info returns every stored and not
\* deleted record exactly once, newest first, for every record
\* store_process_info accepts, also for records without an output file.
C21_GetAllReturnsEveryRecord ==
    manager_class = "ProcessManager" =>
        \A k \in EntriesOf("get_all_process_info") :
            /\ log[k + 1].ev = "return"
            /\ OneRecordPerRow(Val(log[k + 1].data).processes, Val(log[k].data).table)
            /\ NewestFirst(Val(log[k + 1].data).processes)

\* the step is a call of the operation op that returned or raised at once
CallStep(op) ==
    /\ Len(log') = Len(log) + 2
    /\ log'[Len(log) + 1].ev = "call"
    /\ log'[Len(log) + 1].op = op

\* the keys of the rows whose record is active in the list of records
ActiveKeys(table, all_processes) ==
    {key \in DOMAIN table :
        \E i \in DOMAIN all_processes :
            /\ all_processes[i].active
            /\ [all_processes[i] EXCEPT !.active = FALSE] = FromRowAll(table[key])}

\* C23: delete_inactive_processes removes exactly the records whose active
\* flag, as its get_all_process_info computed it, is false, leaves the active
\* records in place and returns the number of records it removed.
C23_DeleteInactiveRemovesInactive ==
    [][CallStep("delete_inactive_processes") =>
          /\ log'[Len(log) + 2].ev = "return"
          /\ LET active == ActiveKeys(registry, Val(log'[Len(log) + 1].data).all_processes)
             IN  /\ registry' = [key \in active |-> registry[key]]
                 /\ Val(log'[Len(log) + 2].data).count
                        = Cardinality(DOMAIN registry \ active)]_vars

\* C24: delete_process_info(h) removes the record keyed h and returns True
\* when it exists and returns False when it does not; in both cases every
\* record with another key is left as it was.
C24_DeleteRemovesOnlyItsRecord ==
    [][CallStep("delete_process_info") =>
          LET key == Val(log'[Len(log) + 1].data).process_hash
              returned == log'[Len(log) + 2]
          IN  /\ returned.ev = "return"
              /\ Val(returned.data).deleted = (key \in DOMAIN registry)
              /\ DOMAIN registry' = DOMAIN registry \ {key}
              /\ \A other \in DOMAIN registry \ {key} :
                     registry'[other] = registry[other]]_vars

\* a record was deleted while another one stayed, and a call for a key
\* without record returned False
C24_Witness ==
    /\ registry # <<>>
    /\ \E k \in EntriesOf("delete_process_info") :
           /\ log[k + 1].ev = "return"
           /\ Val(log[k + 1].data).deleted
           /\ Val(log[k].data).process_hash \notin DOMAIN registry
    /\ \E k \in EntriesOf("delete_process_info") :
           /\ log[k + 1].ev = "return"
           /\ ~Val(log[k + 1].data).deleted

\* the output files the rows of the table name that are on disk
FilesOnDisk(table, files) == OutputFilesOf(table) \cap files

\* C25: on a disk where files can be removed, after delete_process_info or
\* delete_inactive_processes removed a record, the output file of that record
\* no longer exists, and the output file of every record that stays is as it
\* was.
C25_OutputFileDeletedWithRecord ==
    [][(CallStep("delete_process_info") \/ CallStep("delete_inactive_processes")) =>
          LET removed == [key \in DOMAIN registry \ DOMAIN registry' |-> registry[key]]
          IN  /\ (OutputFilesOf(removed) \ OutputFilesOf(registry')) \cap output_files' = {}
              /\ FilesOnDisk(registry', output_files')
                     = FilesOnDisk(registry', output_files)]_vars

\* the PID of the record is held by a process that none of the recorded
\* launches created: every launched process was created at a time of
\* StartTimes, this one at another time
PidReused(proc) ==
    /\ ~IsNone(proc.pid)
    /\ Val(proc.pid) \in DOMAIN os.procs
    /\ os.procs[Val(proc.pid)].create_time \notin StartTimes

\* the record has the shape of the records the spawner stores: a PID, an
\* output file, and the start time psutil gave or none
SpawnerRecord(proc) == ~IsNone(proc.pid) /\ ~IsNone(proc.output)

\* C27: when the process of a record has exited and its PID is held by
\* another process with a different start time, get_all_process_info reports
\* the record as inactive, for every record the spawner can have stored.
C27_ReusedPidIsInactive ==
    \A k \in EntriesOf("get_all_process_info") :
        log[k + 1].ev = "return" =>
            LET processes == Val(log[k + 1].data).processes
            IN  \A i \in DOMAIN processes :
                    (SpawnerRecord(processes[i]) /\ PidReused(processes[i]))
                        => ~processes[i].active

(***************************************************************************)
(* Claims about the liveness verifier (specification SpecVerifier).        *)
(***************************************************************************)
\* the verdict of the tier in use on the triplet alone
OwnVerdict(t) ==
    LET alone == AreProcessesRunning(<<t>>)
    IN  alone # <<>> /\ alone[1].alive

\* C22: for every non-empty batch, whichever tier is used,
\* _are_processes_running returns one (pid, alive) pair per triplet, in the
\* order of the triplets, each with the verdict on its own triplet, which is
\* what the zip of get_all_process_info relies on.
C22_OnePairPerTripletInOrder ==
    \A k \in EntriesOf("_are_processes_running") :
        LET batch == Val(log[k].data).pid_triplets
            result == Val(log[k + 1].data).result
        IN  (batch # <<>> /\ log[k + 1].ev = "return") =>
                /\ Len(result) = Len(batch)
                /\ \A i \in DOMAIN batch :
                       /\ result[i].pid = batch[i].pid
                       /\ result[i].alive = OwnVerdict(batch[i])

\* the verdict the caller reads for the i-th triplet of a batch: the zip of
\* get_all_process_info pairs triplets and results by position
ReportedAlive(result, i) == i <= Len(result) /\ result[i].alive

\* C26: given two entries with the same PID and different start times, and
\* one live process with that PID, the verifier reports at most one of the two
\* entries as alive.
C26_PidReuseResistance ==
    \A k \in EntriesOf("_are_processes_running") :
        LET batch == Val(log[k].data).pid_triplets
            result == Val(log[k + 1].data).result
        IN  (/\ log[k + 1].ev = "return"
             /\ Len(batch) = 2
             /\ batch[1].pid = batch[2].pid
             /\ batch[1].pid \in DOMAIN os.procs
             /\ ~IsNone(batch[1].start_time)
             /\ ~IsNone(batch[2].start_time)
             /\ batch[1].start_time # batch[2].start_time)
                => ~(ReportedAlive(result, 1) /\ ReportedAlive(result, 2))

\* the lookup of the entry fails: inspecting the process is denied where the
\* psutil tier has something to compare; tasklist does not give its list;
\* on Unix /proc/<pid>/exe cannot be read, ps does not answer and the signal
\* is not permitted
LookupFails(t) ==
    IF Tier = "psutil"
    THEN /\ t.pid \in DOMAIN os.procs
         /\ os.procs[t.pid].denied
         /\ ~(IsNone(t.start_time) /\ IsNone(t.exe))
    ELSE IF Tier = "tasklist"
    THEN os.utility # "ok"
    ELSE /\ t.pid \in DOMAIN os.procs
         /\ os.procs[t.pid].denied
         /\ os.utility # "ok"

\* C28: no exception leaves _are_processes_running for any batch; an entry
\* whose lookup fails is reported dead, and the other entries of its batch
\* get the verdict they get alone.
C28_NeverThrowsBadEntryDead ==
    \A k \in EntriesOf("_are_processes_running") :
        LET batch == Val(log[k].data).pid_triplets
            result == Val(log[k + 1].data).result
        IN  /\ log[k + 1].ev = "return"
            /\ \A i \in DOMAIN batch :
                   IF LookupFails(batch[i])
                   THEN ~ReportedAlive(result, i)
                   ELSE (\E j \in DOMAIN batch : LookupFails(batch[j]))
                            => ReportedAlive(result, i) = OwnVerdict(batch[i])

\* the Unix tier gets to os.kill(pid, 0) for the entry: neither
\* /proc/<pid>/exe nor ps gave an image
ReachesSignalProbe(t) ==
    /\ Tier = "unix"
    /\ t.pid \in DOMAIN os.procs =>
           /\ ~os.proc_fs \/ os.procs[t.pid].denied
           /\ os.utility # "ok"

\* C29: in the existence probe with signal 0, an entry whose PID does not
\* exist is reported dead, and an entry whose PID exists is reported dead
\* when an expected executable or an expected start time was supplied for it.
C29_SignalProbeIsConservative ==
    \A k \in EntriesOf("_are_processes_running") :
        LET batch == Val(log[k].data).pid_triplets
            result == Val(log[k + 1].data).result
        IN  log[k + 1].ev = "return" =>
                \A i \in DOMAIN batch :
                    (/\ ReachesSignalProbe(batch[i])
                     /\ \/ batch[i].pid \notin DOMAIN os.procs
                        \/ ~IsNone(batch[i].exe)
                        \/ ~IsNone(batch[i].start_time))
                        => ~ReportedAlive(result, i)

(***************************************************************************)
(* Claims about the threads (specification SpecThreads).                   *)
(***************************************************************************)
\* the uses of a connection in the history: [thread, connection]
Uses == {Val(log[k].data) : k \in {j \in DOMAIN log : log[j].ev = "execute"}}

\* C30: under any interleaving of registry operations of several threads on
\* one ProcessManager, every operation runs on a connection the calling
\* thread made, no connection is used by two threads, and a thread uses the
\* same connection in all its calls.
C30_ConnectionPerThread ==
    /\ \A u \in Uses :
           /\ u.connection \in DOMAIN connections
           /\ connections[u.connection] = u.thread
    /\ \A u, v \in Uses : u.connection = v.connection => u.thread = v.thread
    /\ \A u, v \in Uses : u.thread = v.thread => u.connection = v.connection

\* two threads were inside registry methods at the same time, each executed
\* on a connection, and one of them executed twice, the second time on the
\* connection it had asked for again
C30_Witness ==
    /\ \E k \in DOMAIN log :
           /\ log[k].ev = "connect"
           /\ \E j \in 1..(k - 1) :
                  /\ log[j].ev = "connect"
                  /\ \A i \in j..k : log[i].ev # "execute"
    /\ Cardinality({u.thread : u \in Uses}) = 2
    /\ \E i, j \in DOMAIN log :
           /\ i # j
           /\ log[i].ev = "execute"
           /\ log[j].ev = "execute"
           /\ Val(log[i].data).thread = Val(log[j].data).thread

\* ---------------------------------------------------------------------------
\* the handshake file of the Linux mid-process branch
\* ---------------------------------------------------------------------------

\* positions of a step in the steps of a handshake
StepsAt(h, step) == {i \in 1..Len(h.steps) : h.steps[i] = step}

\* the handshake is read after the intermediary has exited, and once
ReadOnceAfterExit(h) ==
    /\ Cardinality(StepsAt(h, "read")) <= 1
    /\ \A i \in StepsAt(h, "read") \cup StepsAt(h, "open_failed") :
           \E j \in StepsAt(h, "exited") : j < i

\* C31: in the indirection branch the handshake file is read only after the
\* intermediary has exited, it is read exactly once, and it is deleted by the
\* time _run_process returns or raises, on every path
C31_HandshakeReadOnceThenDeleted ==
    \A k \in 1..Len(log) :
        log[k].ev = "handshake" =>
            /\ ReadOnceAfterExit(Val(log[k].data))
            /\ ~Val(log[k].data).exists

\* ---------------------------------------------------------------------------
\* the environment handed down by the spawner
\* ---------------------------------------------------------------------------

\* a pre-launch hook set the key before position i of the history
HookAdded(key, i) ==
    \E j \in 1..(i - 1) :
        /\ log[j].ev = "pre_end"
        /\ IsNone(log[j].data)
        /\ key \in hook_classes[Val(log[j].hook).kind][Val(log[j].hook).cls].sets_env

\* C32: for every source environment, an empty one included, no key of the
\* ignore-list is in context.env after construction, and none that a hook did
\* not add is in the env the direct spawn gets, in the env of the handshake
\* JSON, or in the environment given to the intermediary process
C32_IgnoredKeysNotPassedDown ==
    /\ log = <<>> => DOMAIN ContextEnv(kwargs) \cap IgnoredEnv = {}
    /\ \A i \in 1..Len(log) :
           log[i].ev = "spawn_start" =>
               LET env == Val(log[i].data).env
               IN  \A key \in IgnoredEnv :
                       \/ HookAdded(key, i)
                       \/ /\ key \notin DOMAIN env.child_env
                          /\ ~IsNone(env.json_env) => key \notin DOMAIN Val(env.json_env)

\* ---------------------------------------------------------------------------
\* the psutil tier and the fallback tiers, entry by entry
\* ---------------------------------------------------------------------------

\* what exe(), name() and cmdline()[0] of a live process give where they can
\* be read: the path of the executable, its name, and the path again
LiveIdentities(p) == IF p.denied THEN {} ELSE {AsPosix(p.exe), PathName(p.exe)}

\* the recorded executable is one of the identities of the live process,
\* letter case ignored on Windows only
MatchesLiveProcess(expected, p) ==
    \E c \in LiveIdentities(p) :
        IF Lower(platform_system) = "windows"
        THEN Lower(expected) = Lower(c)
        ELSE expected = c

\* the verdict the psutil tier is said to give on a triplet
PsutilVerdict(t) ==
    /\ t.pid \in DOMAIN os.procs
    /\ IsNone(t.start_time)
           \/ (/\ ~os.procs[t.pid].denied
               /\ AbsDiff(os.procs[t.pid].create_time, Val(t.start_time))
                      <= StartTimeTolerance)
    /\ IsNone(t.exe) \/ MatchesLiveProcess(Val(t.exe), os.procs[t.pid])

\* C33: in the psutil tier an entry is reported alive if and only if a process
\* with its PID exists, no start time was recorded or the creation time is
\* within the tolerance of it, and no executable was recorded or it matches
\* (case-insensitively on Windows) the executable path, the name or the first
\* command-line token of the live process
C33_PsutilAliveIff ==
    \A k \in EntriesOf("_are_processes_running") :
        LET batch == Val(log[k].data).pid_triplets
            result == Val(log[k + 1].data).result
        IN  (Tier = "psutil" /\ log[k + 1].ev = "return") =>
                \A i \in DOMAIN batch :
                    ReportedAlive(result, i) <=> PsutilVerdict(batch[i])

\* the live process of the record runs the recorded executable
ImageIsRecorded(proc) ==
    /\ ~IsNone(proc.pid)
    /\ Val(proc.pid) \in DOMAIN os.procs
    /\ IsNone(proc.executable)
           \/ os.procs[Val(proc.pid)].exe = Val(proc.executable)

\* C34: in the system-utility fallback tier (no psutil), every record
\* returned by ProcessManager.get_all_process_info whose PID exists is
\* reported alive if the image of the live process is the recorded
\* executable, or if no expected image was recorded
C34_FallbackAliveOnImageMatch ==
    \A k \in EntriesOf("get_all_process_info") :
        (manager_class = "ProcessManager" /\ ~os.psutil /\ log[k + 1].ev = "return") =>
            LET processes == Val(log[k + 1].data).processes
            IN  \A i \in DOMAIN processes :
                    ImageIsRecorded(processes[i]) => processes[i].active

\* ---------------------------------------------------------------------------
\* the start time of the stored record
\* ---------------------------------------------------------------------------

\* the spawn of a call: what it passed and what the operating system reports
SpawnOf(n) == Val(Only(EventsOfCall(n), "spawn_start")[1].data)

\* C35: in both spawn branches, whenever the operating system can report the
\* creation time of the target at spawn time, start_time of the stored record
\* is the creation time of the process whose PID the record holds
C35_StartTimeIsOfStoredPid ==
    \A n \in 1..ncalls :
        \A k \in DOMAIN StoredBy(n) :
            LET record == StoredBy(n)[k]
                created == SpawnOf(n).created
            IN  Val(record.pid) \in DOMAIN created =>
                    record.start_time = Some(created[Val(record.pid)])

\* ---------------------------------------------------------------------------
\* a context that only computes the environment
\* ---------------------------------------------------------------------------

\* every call on the context so far was run_prelaunch_hooks()
OnlyPrelaunchHooksCalled == \A i \in DOMAIN log : log[i].op = "run_prelaunch_hooks"

\* the calls of run_prelaunch_hooks() that returned
ReturnedPrelaunchCalls ==
    {n \in 1..ncalls :
        LET events == EventsOfCall(n)
        IN  /\ events # <<>>
            /\ events[1].op = "run_prelaunch_hooks"
            /\ events[Len(events)].ev = "return"}

\* C36: a context used only to compute environment variables never spawns:
\* run_prelaunch_hooks(), also with executable None, executes the pre-launch
\* hooks but performs no spawn, writes no record, executes no post-launch hook
\* and leaves the process handle of the context unset
C36_PrelaunchHooksNeverSpawn ==
    /\ \A i \in DOMAIN log :
           log[i].op = "run_prelaunch_hooks" =>
               log[i].ev \in {"call", "pre_start", "pre_end", "return", "raise"}
    /\ OnlyPrelaunchHooksCalled =>
           /\ IsNone(process)
           /\ registry = <<>>
           /\ output_files = {}
           /\ \A n \in ReturnedPrelaunchCalls :
                  (\A k \in ReturnedPrelaunchCalls : n <= k) =>
                      /\ prelaunch_hooks_executed
                      /\ HooksOf(Only(EventsOfCall(n), "pre_end")) = Val(prelaunch_hooks)
                      /\ \A e \in Range(Only(EventsOfCall(n), "pre_end")) : IsNone(e.data)

\* C36 witness: on a context without executable run_prelaunch_hooks()
\* executed a pre-launch hook that set a key of the environment and returned,
\* and nothing else was called
C36_Witness ==
    /\ IsNone(executable)
    /\ OnlyPrelaunchHooksCalled
    /\ pc = "idle"
    /\ ReturnedPrelaunchCalls # {}
    /\ Only(log, "pre_end") # <<>>
    /\ "AYON_APP_NAME" \in DOMAIN ContextEnv(kwargs)

\* ---------------------------------------------------------------------------
\* the identity key
\* ---------------------------------------------------------------------------

\* the four inputs of the key: the name, the PID, the executable as the class
\* takes it, and the start time
KeyInputs(info) ==
    <<info.name, info.pid,
      IF manager_class = "ApplicationManager"
      THEN ExtractExecutableNameFromArgs(info.args)
      ELSE info.executable,
      info.start_time>>

\* C37: the identity key is injective in its four inputs: two records that
\* differ in name, PID, executable identity or start time never have the same
\* key, so storing one never replaces the row of the other
C37_IdentityKeyInjective ==
    \A i, j \in DOMAIN CallsOf("store_process_info") :
        LET first == Val(CallsOf("store_process_info")[i].data)
            second == Val(CallsOf("store_process_info")[j].data)
        IN  KeyInputs(first) # KeyInputs(second) =>
                /\ GetProcessInfoHash(first) # GetProcessInfoHash(second)
                /\ \E k \in DOMAIN registry : FromRow(registry[k]).name = first.name

\* ---------------------------------------------------------------------------
\* the store shared by the launch path and the process monitor
\* ---------------------------------------------------------------------------

\* C38: whichever of the two classes created the table, every record stored
\* by a launch is returned by ProcessManager.get_all_process_info with the
\* same name, PID, args and environment, and get_process_info_hash of
\* ProcessManager of the returned record is the key of its row
C38_SharedStoreAgrees ==
    \A k \in DOMAIN log :
        (log[k].ev = "call" /\ log[k].op = "ProcessManager.get_all_process_info") =>
            LET table == Val(log[k].data).table
            IN  /\ log[k + 1].ev = "return"
                /\ \A key \in DOMAIN table :
                       \E i \in DOMAIN Val(log[k + 1].data).processes :
                           LET proc == Val(log[k + 1].data).processes[i]
                           IN  /\ proc.name = table[key].name
                               /\ proc.pid = Val(table[key].pid)
                               /\ proc.args = table[key].args
                               /\ proc.env = table[key].env
                               /\ GetProcessInfoHashOfProcessManager(
                                      [proc EXCEPT !.pid = Some(@),
                                                   !.executable = Some(PathOf(@))]) = key

(***************************************************************************)
(* Claims about the process monitor (specification SpecWindow).            *)
(***************************************************************************)
\* the keys under which the table holds the record of a row
StoredKeysOf(proc, table) ==
    {k \in DOMAIN table : [FromRowAll(table[k]) EXCEPT !.active = proc.active] = proc}

\* the confirmed calls of _delete_selected_process, as positions of the log
ConfirmedDeletes ==
    {i \in DOMAIN log :
        /\ log[i].op = "_delete_selected_process"
        /\ log[i].ev = "call"
        /\ Val(log[i].data).reply = "Yes"}

\* no worker is in the pool and no signal is on its way
WindowQuiet == window.pool = <<>> /\ window.signals = <<>>

\* C39: confirming "Delete Selected" for a selected row starts a cleanup
\* worker with the key under which the record of the row is stored, and once
\* the workers started since then have run and their signals are handled the
\* window is not loading.
C39_DeleteSelectedCleansAndUnloads ==
    /\ \A i \in ConfirmedDeletes :
           /\ i < Len(log)
           /\ log[i + 1].ev = "start"
           /\ log[i + 1].call = log[i].call
           /\ \E k \in StoredKeysOf(Val(log[i].data).process, Val(log[i].data).table) :
                  Val(log[i + 1].data).process_hash = Some(k)
    /\ (ConfirmedDeletes # {} /\ window.alive /\ WindowQuiet) => ~window.is_loading

====
